---- MODULE Spec2Model ----
(***************************************************************************)
(* Architecture discovery and drift tracking.                              *)
(*                                                                         *)
(* ArchitectureTracer (architecture_tracer.py) accumulates services,       *)
(* dependency edges and endpoints from ordered traces;                     *)
(* ArchitectureDriftDetector (drift_detector.py) diffs and scores two      *)
(* architecture documents; AdvancedDriftTracker (advanced_drift_tracker.py)*)
(* fingerprints documents and keeps the snapshot history.                  *)
(*                                                                         *)
(* Python values are modelled as follows.  A str is a TLA+ string.  None   *)
(* is the string "None" (what str() and f-strings print for it); no        *)
(* service or endpoint of the model's universe is named "None".  A list is *)
(* a sequence, a set is a set, and a dict is a sequence of <<key, value>>  *)
(* pairs with distinct keys, in insertion order (dicts and defaultdicts    *)
(* keep insertion order).                                                  *)
(***************************************************************************)
EXTENDS Integers, Sequences, FiniteSets, TLC

VARIABLES
    all_services,          \* ArchitectureTracer.all_services: set of str
    service_dependencies,  \* ArchitectureTracer.service_dependencies: defaultdict(set)
    service_endpoints,     \* ArchitectureTracer.service_endpoints: defaultdict(set)
    user_journeys,         \* ArchitectureTracer.user_journeys: list of journey_data
    architecture,          \* the dict last returned by build_architecture_map
    fed,                   \* history variable: what the analyze_trace calls were given
    splunk,                \* the trace store: the response to each correlation id
    run,                   \* main() of architecture_tracer.py: its input and position
    documents,             \* the baseline and the current document given to the detector
    changes,               \* ArchitectureDriftDetector.changes
    drift_score,           \* ArchitectureDriftDetector.drift_score
    severity,              \* ArchitectureDriftDetector.severity
    compared,              \* history variable: the comparisons the detector has made
    cli,                   \* main() of drift_detector.py: its arguments, position, exit status
    discovered,            \* the file discovered_architecture.json
    history,               \* AdvancedDriftTracker.history
    second_history,        \* .history of a second tracker on the same history directory
    history_file,          \* the file drift_history.json of the history directory
    snapshot_files,        \* the snapshot_*.json files of the history directory
    clock,                 \* datetime.utcnow(), in seconds
    returned,              \* what the tracker's last capture_snapshot call returned
    trend,                 \* generate_trend_report: what it reported; drift_trend_report.txt
    orchestrator           \* MasterOrchestrator: results, errors, position of run(), exit status

tracerVars == <<all_services, service_dependencies, service_endpoints, user_journeys>>

mainVars == <<splunk, run>>

detectorVars == <<documents, changes, drift_score, severity, compared, cli>>

trackerVars ==
    <<discovered, history, second_history, history_file, snapshot_files, clock, returned,
      trend>>

vars == <<tracerVars, architecture, fed, mainVars, detectorVars, trackerVars, orchestrator>>

\* A specification of one program leaves the others out: no detector has been made.
NoDetector ==
    /\ documents = <<>>
    /\ changes = <<>>
    /\ drift_score = 0
    /\ severity = "NO_CHANGE"
    /\ compared = <<>>
    /\ cli = [phase |-> "off"]

\* generate_trend_report has not been called, and drift_trend_report.txt does not
\* exist.
NoTrend == [called |-> FALSE, insufficient |-> FALSE, file |-> [exists |-> FALSE]]

\* No tracker has been made, and its files do not exist.
NoTracker ==
    /\ discovered = [exists |-> FALSE]
    /\ history = <<>>
    /\ second_history = <<>>
    /\ history_file = [exists |-> FALSE]
    /\ snapshot_files = {}
    /\ clock = 0
    /\ returned = [called |-> FALSE]
    /\ trend = NoTrend

\* No orchestrator has been made.
NoOrchestrator == orchestrator = [phase |-> "off"]

-----------------------------------------------------------------------------
(* Python values *)

None == "None"

\* Truthiness of an optional str: None and '' are falsy.
Truthy(x) == x # None /\ x # ""

\* Codepoint order of the strings the model uses ('/' < 'N' < 'a' < 'n' < 'p'),
\* the order sorted() and json.dumps(sort_keys=True) put them in.
StrOrder == <<"/login", "/pay", "/search", "None", "auth", "null", "payment", "product">>

Rank(s) == CHOOSE i \in DOMAIN StrOrder : StrOrder[i] = s

Range(s) == {s[i] : i \in DOMAIN s}

\* All the orders in which a set can be listed: list(a_set) iterates in an
\* order the language leaves unspecified.
Listings(S) ==
    {f \in [1..Cardinality(S) -> S] : \A x \in S : \E i \in DOMAIN f : f[i] = x}

\* sorted() of a set of str.
RECURSIVE SortedSet(_)
SortedSet(S) ==
    IF S = {} THEN <<>>
    ELSE LET m == CHOOSE x \in S : \A y \in S : Rank(x) <= Rank(y)
         IN  <<m>> \o SortedSet(S \ {m})

\* dict operations over <<key, value>> sequences
DictKeys(d) == {d[i][1] : i \in DOMAIN d}

DictGet(d, k) == d[CHOOSE i \in DOMAIN d : d[i][1] = k][2]

\* defaultdict(set): d[k].add(v) creates the key k on first use.
DefaultAdd(d, k, v) ==
    IF k \in DictKeys(d)
    THEN [i \in DOMAIN d |-> IF d[i][1] = k THEN <<k, d[i][2] \cup {v}>> ELSE d[i]]
    ELSE Append(d, <<k, {v}>>)

\* sum(len(v) for v in d.values())
RECURSIVE SumLen(_)
SumLen(d) ==
    IF d = <<>> THEN 0 ELSE Cardinality(Head(d)[2]) + SumLen(Tail(d))

-----------------------------------------------------------------------------
(* Traces *)

\* The longest trace analyze_trace is given.
MaxTraceLen == 3

\* entry.get('service') and entry.get('endpoint') of the log entries the trace
\* store returns; None stands for a missing (or empty) field.
Events ==
    { [service |-> "auth",    endpoint |-> "/login"],
      [service |-> "auth",    endpoint |-> None],
      [service |-> "product", endpoint |-> "/search"],
      [service |-> None,      endpoint |-> "/login"] }

Traces == UNION {[1..n -> Events] : n \in 0..MaxTraceLen}

-----------------------------------------------------------------------------
(* ArchitectureTracer *)

\* The tracer object.
Tracer ==
    [ all_services         |-> all_services,
      service_dependencies |-> service_dependencies,
      service_endpoints    |-> service_endpoints,
      user_journeys        |-> user_journeys ]

\* Variant of LoopStart: previous_service left where the last journey ended, not
\* set to None at the start of the trace.
LoopStartKeepsPrevious(tr) ==
    [ all_services         |-> tr.all_services,
      service_dependencies |-> tr.service_dependencies,
      service_endpoints    |-> tr.service_endpoints,
      services_in_order    |-> <<>>,
      endpoints_used       |-> <<>>,
      previous_service     |-> IF tr.user_journeys = <<>> THEN None
                               ELSE tr.user_journeys[Len(tr.user_journeys)].end_service ]

\* The state analyze_trace starts its loop in, on tracer tr.
LoopStart(tr) ==
    [ all_services         |-> tr.all_services,
      service_dependencies |-> tr.service_dependencies,
      service_endpoints    |-> tr.service_endpoints,
      services_in_order    |-> <<>>,
      endpoints_used       |-> <<>>,
      previous_service     |-> None ]

\* Variants of InferDependency: the test previous_service != service left out; the
\* edge recorded from the current service to the previous one.
InferDependencyNoTest(st, service) ==
    IF Truthy(st.previous_service)
    THEN DefaultAdd(st.service_dependencies, st.previous_service, service)
    ELSE st.service_dependencies

InferDependencyReversed(st, service) ==
    IF Truthy(st.previous_service) /\ st.previous_service # service
    THEN DefaultAdd(st.service_dependencies, service, st.previous_service)
    ELSE st.service_dependencies

\* The dependency inference of one loop pass: the updated service_dependencies.
InferDependency(st, service) ==
    IF Truthy(st.previous_service) /\ st.previous_service # service
    THEN DefaultAdd(st.service_dependencies, st.previous_service, service)
    ELSE st.service_dependencies

\* One pass of `for entry in trace`.
LoopBody(st, entry) ==
    LET service  == entry.service
        endpoint == entry.endpoint
        discover == Truthy(service) /\ service \notin Range(st.services_in_order)
    IN  [ all_services         |-> IF discover THEN st.all_services \cup {service}
                                   ELSE st.all_services,
          services_in_order    |-> IF discover THEN Append(st.services_in_order, service)
                                   ELSE st.services_in_order,
          endpoints_used       |-> IF Truthy(endpoint)
                                   THEN Append(st.endpoints_used,
                                               [service |-> service, endpoint |-> endpoint])
                                   ELSE st.endpoints_used,
          service_endpoints    |-> IF Truthy(endpoint)
                                   THEN DefaultAdd(st.service_endpoints, service, endpoint)
                                   ELSE st.service_endpoints,
          service_dependencies |-> InferDependency(st, service),
          previous_service     |-> service ]

RECURSIVE Loop(_, _)
Loop(st, trace) ==
    IF trace = <<>> THEN st ELSE Loop(LoopBody(st, Head(trace)), Tail(trace))

\* journey_data, the value analyze_trace returns for a non-empty trace.
JourneyData(correlation_id, st) ==
    LET s == st.services_in_order
    IN  [ correlation_id |-> correlation_id,
          services       |-> s,
          endpoints      |-> st.endpoints_used,
          start_service  |-> IF s # <<>> THEN s[1] ELSE None,
          end_service    |-> IF s # <<>> THEN s[Len(s)] ELSE None,
          service_count  |-> Len(s) ]

\* What the history variable `fed` records of one trace: the pairs of services of
\* consecutive events that differ, whether every event carries a service, and
\* whether a service comes back, right after itself or after events that carry no
\* service.
AdjacentPairs(trace) ==
    { <<trace[i].service, trace[i + 1].service>> :
        i \in {j \in 1..(Len(trace) - 1) : trace[j].service # trace[j + 1].service} }

CarriesService(trace) == \A i \in DOMAIN trace : Truthy(trace[i].service)

Revisits(trace) ==
    \E i, j \in DOMAIN trace :
        /\ i < j
        /\ Truthy(trace[i].service)
        /\ trace[i].service = trace[j].service
        /\ \A k \in (i + 1)..(j - 1) : ~Truthy(trace[k].service)

NoArchitecture == [built |-> FALSE]

\* analyze_trace(correlation_id, trace).  The journey_data it returns goes to its
\* caller; `architecture` holds a map only while build_architecture_map is the
\* last call made on the tracer.
AnalyzeTrace ==
    \E trace \in Traces :
        LET st == IF trace = <<>> THEN LoopStart(Tracer) ELSE Loop(LoopStart(Tracer), trace)
        IN  /\ all_services' = st.all_services
            /\ service_dependencies' = st.service_dependencies
            /\ service_endpoints' = st.service_endpoints
            /\ fed' = [ pairs   |-> fed.pairs \cup AdjacentPairs(trace),
                        carried |-> fed.carried /\ CarriesService(trace),
                        revisit |-> fed.revisit \/ Revisits(trace) ]
            /\ architecture' = NoArchitecture
            /\ UNCHANGED <<user_journeys, mainVars, detectorVars, trackerVars, orchestrator>>

\* The dicts build_architecture_map can make of a defaultdict(set): the keys in
\* insertion order, each set listed in some order.
ListedDicts(d) ==
    { [i \in DOMAIN d |-> <<d[i][1], f[i]>>] :
        f \in { g \in [DOMAIN d -> UNION {Listings(d[i][2]) : i \in DOMAIN d}] :
                  \A i \in DOMAIN d : g[i] \in Listings(d[i][2]) } }

\* build_architecture_map(): the map goes to `architecture`.
BuildMap ==
    \E dependencies_dict \in ListedDicts(service_dependencies) :
    \E endpoints_dict \in ListedDicts(service_endpoints) :
        /\ architecture' =
             [ built                |-> TRUE,
               total_services       |-> Cardinality(all_services),
               services             |-> SortedSet(all_services),
               service_dependencies |-> dependencies_dict,
               service_endpoints    |-> endpoints_dict,
               user_journeys        |-> user_journeys,
               metrics |-> [ total_services     |-> Cardinality(all_services),
                             total_dependencies |-> SumLen(service_dependencies),
                             total_endpoints    |-> SumLen(service_endpoints),
                             total_journeys     |-> Len(user_journeys) ] ]
        /\ UNCHANGED <<tracerVars, fed>>

\* build_architecture_map(), called on the tracer at any time.
BuildArchitectureMap == BuildMap /\ UNCHANGED <<mainVars, detectorVars, trackerVars, orchestrator>>

\* ArchitectureTracer.__init__
NewTracer ==
    /\ all_services = {}
    /\ service_dependencies = <<>>
    /\ service_endpoints = <<>>
    /\ user_journeys = <<>>

NoFed == [pairs |-> {}, carried |-> TRUE, revisit |-> FALSE]

NoRun == [phase |-> "off"]

\* A tracer whose analyze_trace and build_architecture_map are called in any order.
Init ==
    /\ NewTracer
    /\ architecture = NoArchitecture
    /\ fed = NoFed
    /\ splunk = <<>>
    /\ run = NoRun
    /\ NoDetector
    /\ NoTracker
    /\ NoOrchestrator

Next == AnalyzeTrace \/ BuildArchitectureMap

Spec == Init /\ [][Next]_vars

-----------------------------------------------------------------------------
(* The architecture document on disk and its fingerprint *)

\* json.dump writes the key None as "null"; json.load reads the keys back as str.
JsonKey(k) == IF k = None THEN "null" ELSE k

JsonObject(d) == [i \in DOMAIN d |-> <<JsonKey(d[i][1]), d[i][2]>>]

\* discovered_architecture.json as save_outputs writes it and json.load reads it.
SavedArchitecture(a) ==
    [ services             |-> a.services,
      service_dependencies |-> JsonObject(a.service_dependencies),
      service_endpoints    |-> JsonObject(a.service_endpoints),
      user_journeys        |-> a.user_journeys,
      metrics              |-> a.metrics ]

\* sorted() of a list of str; equal items stay, each as often as it occurs.
RECURSIVE InsertSorted(_, _)
InsertSorted(l, x) ==
    IF l = <<>> THEN <<x>>
    ELSE IF Rank(x) < Rank(Head(l)) THEN <<x>> \o l
    ELSE <<Head(l)>> \o InsertSorted(Tail(l), x)

RECURSIVE SortedList(_)
SortedList(l) ==
    IF l = <<>> THEN <<>> ELSE InsertSorted(SortedList(Tail(l)), Head(l))

\* sorted() raises TypeError when it has to compare None: '<' is not supported
\* between None and a str, nor between None and None.
Unsortable(l) == Len(l) >= 2 /\ None \in Range(l)

\* {k: sorted(v) for k, v in d.items()}
SortValues(d) == [i \in DOMAIN d |-> <<d[i][1], SortedList(d[i][2])>>]

\* json.dumps(..., sort_keys=True) writes the keys of an object in sorted order.
RECURSIVE InsertByKey(_, _)
InsertByKey(d, kv) ==
    IF d = <<>> THEN <<kv>>
    ELSE IF Rank(kv[1]) < Rank(Head(d)[1]) THEN <<kv>> \o d
    ELSE <<Head(d)>> \o InsertByKey(Tail(d), kv)

RECURSIVE SortKeys(_)
SortKeys(d) ==
    IF d = <<>> THEN <<>> ELSE InsertByKey(SortKeys(Tail(d)), Head(d))

TypeError == [raised |-> "TypeError"]

HashRaises(a) ==
    \/ Unsortable(a.services)
    \/ \E i \in DOMAIN a.service_dependencies : Unsortable(a.service_dependencies[i][2])
    \/ \E i \in DOMAIN a.service_endpoints : Unsortable(a.service_endpoints[i][2])

\* Variants of CalculateArchitectureHash: the timestamp of the document hashed
\* with the three facets; the lists hashed as they come, without sorted(); the
\* keys written as inserted, json.dumps without sort_keys=True.
CalculateArchitectureHashWithTimestamp(a) ==
    IF HashRaises(a) THEN TypeError
    ELSE [ services     |-> SortedList(a.services),
           dependencies |-> SortKeys(SortValues(a.service_dependencies)),
           endpoints    |-> SortKeys(SortValues(a.service_endpoints)),
           timestamp    |-> a.timestamp ]

CalculateArchitectureHashListsAsGiven(a) ==
    [ services     |-> a.services,
      dependencies |-> SortKeys(a.service_dependencies),
      endpoints    |-> SortKeys(a.service_endpoints) ]

CalculateArchitectureHashKeysAsInserted(a) ==
    IF HashRaises(a) THEN TypeError
    ELSE [ services     |-> SortedList(a.services),
           dependencies |-> SortValues(a.service_dependencies),
           endpoints    |-> SortValues(a.service_endpoints) ]

\* AdvancedDriftTracker.calculate_architecture_hash(architecture).  The digest is
\* modelled by the text it digests, the canonical JSON value: equal texts give
\* equal digests, and different texts are taken to give different digests.
CalculateArchitectureHash(a) ==
    IF HashRaises(a) THEN TypeError
    ELSE [ services     |-> SortedList(a.services),
           dependencies |-> SortKeys(SortValues(a.service_dependencies)),
           endpoints    |-> SortKeys(SortValues(a.service_endpoints)) ]

-----------------------------------------------------------------------------
(* main() of architecture_tracer.py, run twice over one trace store *)

\* The longest trace the trace store holds for a correlation id.
MaxStoreLen == 2

StoreTraces == UNION {[1..n -> Events] : n \in 0..MaxStoreLen}

\* The (journey name, correlation id) pairs of correlation_ids.json.
CorrelationIds == { <<"login", "cid-1">>, <<"search", "cid-2">> }

\* The lists of correlation ids main() is given.
Batches == UNION {Listings(S) : S \in SUBSET CorrelationIds}

\* What requests.get meets for a correlation id: a 200 response with a trace,
\* another status, with no trace in its body or with one, or an exception (no
\* connection, timeout).
Responses ==
    {[status |-> 200, raises |-> FALSE, trace |-> t] : t \in StoreTraces}
        \cup {[status |-> 500, raises |-> FALSE, trace |-> <<>>],
              [status |-> 500, raises |-> FALSE,
               trace |-> <<[service |-> "product", endpoint |-> "/search"]>>],
              [status |-> 0, raises |-> TRUE, trace |-> <<>>]}

\* Variant of FetchTraceFromSplunk: the trace of the body returned whatever the
\* status.
FetchTraceFromSplunkAnyStatus(store, correlation_id) ==
    LET response == store[correlation_id]
    IN  IF response.raises THEN <<>> ELSE response.trace

\* fetch_trace_from_splunk(correlation_id)
FetchTraceFromSplunk(store, correlation_id) ==
    LET response == store[correlation_id]
    IN  IF response.raises THEN <<>>
        ELSE IF response.status = 200 THEN response.trace
        ELSE <<>>

\* One pass of the loop of process_all_correlation_ids, on tracer tr.
ProcessOne(tr, store, journey_name, correlation_id) ==
    LET trace == FetchTraceFromSplunk(store, correlation_id)
        st == Loop(LoopStart(tr), trace)
        journey_data == ("journey_name" :> journey_name) @@ JourneyData(correlation_id, st)
    IN  IF trace # <<>>
        THEN [ all_services         |-> st.all_services,
               service_dependencies |-> st.service_dependencies,
               service_endpoints    |-> st.service_endpoints,
               user_journeys        |-> IF journey_data.services # <<>>
                                        THEN Append(tr.user_journeys, journey_data)
                                        ELSE tr.user_journeys ]
        ELSE tr

\* process_all_correlation_ids(correlation_ids), on tracer tr: the tracer after it.
RECURSIVE ProcessAll(_, _, _)
ProcessAll(tr, store, correlation_ids) ==
    IF correlation_ids = <<>> THEN tr
    ELSE ProcessAll(ProcessOne(tr, store, Head(correlation_ids)[1], Head(correlation_ids)[2]),
                    store, Tail(correlation_ids))

\* main(): tracer.process_all_correlation_ids(correlation_ids)
ProcessAllCorrelationIds ==
    /\ run.phase = "new"
    /\ LET tr == ProcessAll(Tracer, splunk, run.correlation_ids)
       IN  /\ all_services' = tr.all_services
           /\ service_dependencies' = tr.service_dependencies
           /\ service_endpoints' = tr.service_endpoints
           /\ user_journeys' = tr.user_journeys
    /\ run' = [run EXCEPT !.phase = "processed"]
    /\ UNCHANGED <<architecture, fed, splunk, detectorVars, trackerVars, orchestrator>>

\* main(): architecture = tracer.build_architecture_map()
MainBuildArchitectureMap ==
    /\ run.phase = "processed"
    /\ BuildMap
    /\ run' = [run EXCEPT !.phase = "built"]
    /\ UNCHANGED <<splunk, detectorVars, trackerVars, orchestrator>>

\* main() is run again, on the same trace store, with its correlation ids in any
\* order: a new tracer.  The first run's map is kept in run.first.
MainAgain ==
    /\ run.phase = "built"
    /\ run.round = 1
    /\ all_services' = {}
    /\ service_dependencies' = <<>>
    /\ service_endpoints' = <<>>
    /\ user_journeys' = <<>>
    /\ architecture' = NoArchitecture
    /\ \E ids \in Listings(Range(run.correlation_ids)) :
           run' = [ phase |-> "new", round |-> 2, correlation_ids |-> ids,
                    first_ids |-> run.correlation_ids, first |-> architecture ]
    /\ UNCHANGED <<fed, splunk, detectorVars, trackerVars, orchestrator>>

InitRuns ==
    /\ NewTracer
    /\ architecture = NoArchitecture
    /\ fed = NoFed
    /\ splunk \in [{c[2] : c \in CorrelationIds} -> Responses]
    /\ \E ids \in Batches :
           run = [ phase |-> "new", round |-> 1, correlation_ids |-> ids,
                   first_ids |-> ids, first |-> NoArchitecture ]
    /\ NoDetector
    /\ NoTracker
    /\ NoOrchestrator

NextRuns == ProcessAllCorrelationIds \/ MainBuildArchitectureMap \/ MainAgain

SpecRuns == InitRuns /\ [][NextRuns]_vars

\* The identity facets of an architecture document, as sets, and its fingerprint.
Facets(a) ==
    [ services     |-> Range(a.services),
      dependencies |-> UNION { {<<a.service_dependencies[i][1], t>> :
                                   t \in Range(a.service_dependencies[i][2])} :
                               i \in DOMAIN a.service_dependencies },
      endpoints    |-> UNION { {<<a.service_endpoints[i][1], t>> :
                                   t \in Range(a.service_endpoints[i][2])} :
                               i \in DOMAIN a.service_endpoints },
      hash         |-> CalculateArchitectureHash(SavedArchitecture(a)) ]

\* C4: the second run of main(), over the same traces in any order, ends with the
\* same services, dependencies and endpoints and the same fingerprint as the first.
C4_OrderIndependence ==
    (run.phase = "built" /\ run.round = 2) =>
        Facets(architecture) = Facets(run.first)

\* C4's case: the second run took the two correlation ids in the other order and
\* its dependency dict has its two keys in another order than the first run's;
\* the fingerprint is a digest, not a TypeError.
C4_Witness ==
    /\ run.phase = "built" /\ run.round = 2
    /\ Len(run.correlation_ids) = 2
    /\ run.correlation_ids # run.first_ids
    /\ Len(architecture.service_dependencies) = 2
    /\ architecture.service_dependencies[1][1] # run.first.service_dependencies[1][1]
    /\ Facets(architecture).hash # TypeError

\* A tracer as __init__ leaves it.
FreshTracer ==
    [ all_services         |-> {},
      service_dependencies |-> <<>>,
      service_endpoints    |-> <<>>,
      user_journeys        |-> <<>> ]

\* The two correlation ids of the batch were answered with one and the same
\* trace, which is not empty.
SameTraceTwice ==
    /\ Len(run.correlation_ids) = 2
    /\ \A i \in 1..2 : /\ ~splunk[run.correlation_ids[i][2]].raises
                        /\ splunk[run.correlation_ids[i][2]].status = 200
    /\ splunk[run.correlation_ids[1][2]].trace = splunk[run.correlation_ids[2][2]].trace
    /\ splunk[run.correlation_ids[1][2]].trace # <<>>

\* C16: a batch that holds a trace twice leaves the services, the dependencies
\* and the endpoints that the trace processed once leaves, in the tracer and in
\* the map, and the same fingerprint; the journeys of the second pass are added
\* after those of the first, and total_journeys counts both.
C16_IdentityNotFrequency ==
    (run.phase \in {"processed", "built"} /\ SameTraceTwice) =>
        LET once == ProcessAll(FreshTracer, splunk, <<run.correlation_ids[1]>>)
        IN  /\ all_services = once.all_services
            /\ service_dependencies = once.service_dependencies
            /\ service_endpoints = once.service_endpoints
            /\ Len(user_journeys) = 2 * Len(once.user_journeys)
            /\ SubSeq(user_journeys, 1, Len(once.user_journeys)) = once.user_journeys
            /\ run.phase = "built" =>
                  /\ architecture.services = SortedSet(once.all_services)
                  /\ architecture.total_services = Cardinality(once.all_services)
                  /\ architecture.metrics =
                       [ total_services     |-> Cardinality(once.all_services),
                         total_dependencies |-> SumLen(once.service_dependencies),
                         total_endpoints    |-> SumLen(once.service_endpoints),
                         total_journeys     |-> 2 * Len(once.user_journeys) ]
                  /\ \A dependencies_dict \in ListedDicts(once.service_dependencies) :
                     \A endpoints_dict \in ListedDicts(once.service_endpoints) :
                        Facets(architecture) =
                          Facets([ services             |-> SortedSet(once.all_services),
                                   service_dependencies |-> dependencies_dict,
                                   service_endpoints    |-> endpoints_dict,
                                   user_journeys        |-> once.user_journeys,
                                   metrics              |-> architecture.metrics ])

\* The fetch of a correlation id succeeds: no exception and status 200.
Succeeded(correlation_id) ==
    ~splunk[correlation_id].raises /\ splunk[correlation_id].status = 200

\* C17: a correlation id whose fetch fails is fetched as the empty list, and the
\* tracer after the batch is the tracer after the batch of the correlation ids
\* whose fetch succeeds: services, dependencies, endpoints and journeys.
C17_FetchFailure ==
    run.phase \in {"processed", "built"} =>
        LET Kept(c) == Succeeded(c[2])
            succeeded == SelectSeq(run.correlation_ids, Kept)
        IN  /\ \A c \in Range(run.correlation_ids) :
                  ~Succeeded(c[2]) => FetchTraceFromSplunk(splunk, c[2]) = <<>>
            /\ Tracer = ProcessAll(FreshTracer, splunk, succeeded)
            /\ succeeded = <<>> => Tracer = FreshTracer

\* C17's case: the fetch of the first correlation id of the batch failed, with a
\* trace in the body of the response, and the second, fetched after it, gave the
\* one journey and the one edge of the tracer.
C17_Witness ==
    /\ run.phase = "processed"
    /\ Len(run.correlation_ids) = 2
    /\ splunk[run.correlation_ids[1][2]].status = 500
    /\ splunk[run.correlation_ids[1][2]].trace # <<>>
    /\ Succeeded(run.correlation_ids[2][2])
    /\ Len(user_journeys) = 1
    /\ user_journeys[1].correlation_id = run.correlation_ids[2][2]
    /\ service_dependencies = << <<"auth", {"product"}>> >>
    /\ all_services = {"auth", "product"}

\* C17's other case: the fetch met an exception.
C17_Raised ==
    /\ run.phase = "processed"
    /\ Len(run.correlation_ids) = 2
    /\ splunk[run.correlation_ids[2][2]].raises
    /\ Succeeded(run.correlation_ids[1][2])
    /\ Len(user_journeys) = 1

\* C16's case: the trace [(auth,/login),(product,/search)] was processed twice;
\* the map has the one edge and the two endpoints once, and two journeys.
C16_Witness ==
    /\ run.phase = "built"
    /\ SameTraceTwice
    /\ splunk[run.correlation_ids[1][2]].trace =
         << [service |-> "auth", endpoint |-> "/login"],
            [service |-> "product", endpoint |-> "/search"] >>
    /\ architecture.service_dependencies = << <<"auth", <<"product">>>> >>
    /\ architecture.metrics = [ total_services |-> 2, total_dependencies |-> 1,
                                total_endpoints |-> 2, total_journeys |-> 2 ]
    /\ Len(architecture.user_journeys) = 2

\* The batch without its last correlation id.
Front(l) == SubSeq(l, 1, Len(l) - 1)

\* C28: when the last trace of a batch added no journey, the tracer's services,
\* dependencies and endpoints are those the batch without it leaves.
C28_ExcludedJourneyNoEffect ==
    (run.phase = "processed" /\ run.correlation_ids # <<>>) =>
        LET before == ProcessAll(FreshTracer, splunk, Front(run.correlation_ids))
        IN  user_journeys = before.user_journeys =>
                /\ all_services = before.all_services
                /\ service_dependencies = before.service_dependencies
                /\ service_endpoints = before.service_endpoints

\* The tracer the claim rules out: the one trace of the batch holds an event
\* with an endpoint and no service; no journey was added, and service_endpoints
\* has the endpoint under the key None.
C28_EndpointWithoutJourney ==
    /\ run.phase = "processed"
    /\ Len(run.correlation_ids) = 1
    /\ user_journeys = <<>>
    /\ all_services = {}
    /\ service_endpoints = << <<None, {"/login"}>> >>

-----------------------------------------------------------------------------
(* Properties of the tracer, checked under Spec *)

\* The edges of a dependency mapping, as <<source, target>> pairs.
Edges(d) == UNION { {<<d[i][1], t>> : t \in d[i][2]} : i \in DOMAIN d }

ListedEdges(d) == UNION { {<<d[i][1], t>> : t \in Range(d[i][2])} : i \in DOMAIN d }

\* C1: in every map build_architecture_map returns, every key of
\* service_dependencies, every dependency target and every key of
\* service_endpoints is one of its services.
C1_Closure ==
    architecture.built =>
        /\ DictKeys(architecture.service_dependencies) \subseteq Range(architecture.services)
        /\ \A e \in ListedEdges(architecture.service_dependencies) :
               e[2] \in Range(architecture.services)
        /\ DictKeys(architecture.service_endpoints) \subseteq Range(architecture.services)

\* C2: no service depends on itself, whatever traces were analyzed.
C2_NoSelfEdges ==
    \A e \in Edges(service_dependencies) : e[1] # e[2]

\* C2's case: a trace in which a service came back, right after itself or after
\* events without a service, has been analyzed, and the service has an edge.
C2_Witness ==
    /\ fed.revisit
    /\ "auth" \in DictKeys(service_dependencies)
    /\ None \in DictGet(service_dependencies, "auth")

\* C3: when every analyzed event carried a service, the dependency edges are
\* exactly the pairs of differing services of consecutive events of one trace.
C3_SequentialAdjacency ==
    fed.carried => Edges(service_dependencies) = fed.pairs

\* C3's case: both services were seen, each in traces of its own, so that a trace
\* that ends on one service was followed by a trace that starts on the other,
\* and no edge was recorded.
C3_Witness ==
    /\ fed.carried
    /\ all_services = {"auth", "product"}
    /\ fed.pairs = {}
    /\ service_dependencies = <<>>

\* C3's scenario: after [(auth,/login),(auth,/login),(product,/search)] alone the
\* one edge is auth -> product.
C3_Scenario ==
    /\ fed.carried /\ fed.revisit
    /\ fed.pairs = {<<"auth", "product">>}
    /\ service_dependencies = << <<"auth", {"product"}>> >>
    /\ service_endpoints = << <<"auth", {"/login"}>>, <<"product", {"/search"}>> >>

-----------------------------------------------------------------------------
(* ArchitectureDriftDetector *)

\* set(a_list)
Set(l) == Range(l)

\* list(a_set): each item once, in an order the language leaves unspecified.  The
\* code modelled below reads the length and the items of these lists, not their
\* order; the model lists the items in one order.
RECURSIVE List(_)
List(S) ==
    IF S = {} THEN <<>>
    ELSE LET x == CHOOSE y \in S : TRUE IN <<x>> \o List(S \ {x})

\* _flatten_dependencies(dependencies_dict): the keys f"{src} -> {target}"
FlattenDependencies(dependencies_dict) ==
    UNION { { dependencies_dict[i][1] \o " -> " \o target :
                target \in Range(dependencies_dict[i][2]) } :
            i \in DOMAIN dependencies_dict }

\* _flatten_endpoints(endpoints_dict): the keys f"{service}:{endpoint}"
FlattenEndpoints(endpoints_dict) ==
    UNION { { endpoints_dict[i][1] \o ":" \o endpoint :
                endpoint \in Range(endpoints_dict[i][2]) } :
            i \in DOMAIN endpoints_dict }

\* Variants of WeightedScore: the score left uncapped; the weights of added and
\* removed services exchanged.
WeightedScoreUncapped(c) ==
    Len(c.services_added) * 15 + Len(c.services_removed) * 20
        + Len(c.dependencies_added) * 7 + Len(c.dependencies_removed) * 10
        + Len(c.endpoints_added) * 3 + Len(c.endpoints_removed) * 5

WeightedScoreExchanged(c) ==
    LET score == Len(c.services_added) * 20 + Len(c.services_removed) * 15
                   + Len(c.dependencies_added) * 7 + Len(c.dependencies_removed) * 10
                   + Len(c.endpoints_added) * 3 + Len(c.endpoints_removed) * 5
    IN  IF score < 100 THEN score ELSE 100

\* _calculate_drift_score: the weighted sum of the six lists of c, capped at 100.
WeightedScore(c) ==
    LET score == Len(c.services_added) * 15 + Len(c.services_removed) * 20
                   + Len(c.dependencies_added) * 7 + Len(c.dependencies_removed) * 10
                   + Len(c.endpoints_added) * 3 + Len(c.endpoints_removed) * 5
    IN  IF score < 100 THEN score ELSE 100

\* Variant of SeverityOf: the tiers closed at their upper ends (<= for <).
SeverityOfInclusive(score) ==
    IF score = 0 THEN "NO_CHANGE"
    ELSE IF score <= 20 THEN "LOW"
    ELSE IF score <= 50 THEN "MEDIUM"
    ELSE IF score <= 80 THEN "HIGH"
    ELSE "CRITICAL"

\* _calculate_drift_score: "Determine severity"
SeverityOf(score) ==
    IF score = 0 THEN "NO_CHANGE"
    ELSE IF score < 20 THEN "LOW"
    ELSE IF score < 50 THEN "MEDIUM"
    ELSE IF score < 80 THEN "HIGH"
    ELSE "CRITICAL"

\* Variants of ChangeLists: added and removed exchanged; the lists of the call
\* before kept and extended instead of replaced.
ChangeListsExchanged(old, baseline, current) ==
    [ services_added       |-> List(Set(baseline.services) \ Set(current.services)),
      services_removed     |-> List(Set(current.services) \ Set(baseline.services)),
      dependencies_added   |-> List(FlattenDependencies(baseline.service_dependencies)
                                      \ FlattenDependencies(current.service_dependencies)),
      dependencies_removed |-> List(FlattenDependencies(current.service_dependencies)
                                      \ FlattenDependencies(baseline.service_dependencies)),
      endpoints_added      |-> List(FlattenEndpoints(baseline.service_endpoints)
                                      \ FlattenEndpoints(current.service_endpoints)),
      endpoints_removed    |-> List(FlattenEndpoints(current.service_endpoints)
                                      \ FlattenEndpoints(baseline.service_endpoints)) ]

ChangeListsKept(old, baseline, current) ==
    [ services_added       |-> List(Set(old.services_added)
                                      \cup (Set(current.services) \ Set(baseline.services))),
      services_removed     |-> List(Set(old.services_removed)
                                      \cup (Set(baseline.services) \ Set(current.services))),
      dependencies_added   |-> List(Set(old.dependencies_added)
                                      \cup (FlattenDependencies(current.service_dependencies)
                                              \ FlattenDependencies(baseline.service_dependencies))),
      dependencies_removed |-> List(Set(old.dependencies_removed)
                                      \cup (FlattenDependencies(baseline.service_dependencies)
                                              \ FlattenDependencies(current.service_dependencies))),
      endpoints_added      |-> List(Set(old.endpoints_added)
                                      \cup (FlattenEndpoints(current.service_endpoints)
                                              \ FlattenEndpoints(baseline.service_endpoints))),
      endpoints_removed    |-> List(Set(old.endpoints_removed)
                                      \cup (FlattenEndpoints(baseline.service_endpoints)
                                              \ FlattenEndpoints(current.service_endpoints))) ]

\* compare_architectures: the six assignments to self.changes, old being
\* self.changes before the call.
ChangeLists(old, baseline, current) ==
    [ old EXCEPT
      !.services_added       = List(Set(current.services) \ Set(baseline.services)),
      !.services_removed     = List(Set(baseline.services) \ Set(current.services)),
      !.dependencies_added   = List(FlattenDependencies(current.service_dependencies)
                                      \ FlattenDependencies(baseline.service_dependencies)),
      !.dependencies_removed = List(FlattenDependencies(baseline.service_dependencies)
                                      \ FlattenDependencies(current.service_dependencies)),
      !.endpoints_added      = List(FlattenEndpoints(current.service_endpoints)
                                      \ FlattenEndpoints(baseline.service_endpoints)),
      !.endpoints_removed    = List(FlattenEndpoints(baseline.service_endpoints)
                                      \ FlattenEndpoints(current.service_endpoints)) ]

\* The architecture documents given to the detector.  A document that lacks a key
\* reads as one with an empty value there (.get(key, [])).
ServiceNames == {"auth", "product", "payment"}

DependencyDicts ==
    { <<>>,
      << <<"product", <<"payment">>>> >>,
      << <<"auth", <<"product">>>> >>,
      << <<"auth", <<"product", "payment">>>>, <<"product", <<"payment">>>> >> }

EndpointDicts ==
    { <<>>,
      << <<"auth", <<"/login">>>> >>,
      << <<"product", <<"/search">>>> >>,
      << <<"auth", <<"/login">>>>, <<"product", <<"/search">>>>, <<"payment", <<"/pay">>>> >> }

Documents ==
    { [ services |-> SortedSet(S), service_dependencies |-> d, service_endpoints |-> e ] :
        S \in SUBSET ServiceNames, d \in DependencyDicts, e \in EndpointDicts }

NoChanges ==
    [ services_added |-> <<>>, services_removed |-> <<>>,
      dependencies_added |-> <<>>, dependencies_removed |-> <<>>,
      endpoints_added |-> <<>>, endpoints_removed |-> <<>> ]

\* compare_architectures(baseline, current), on the baseline and the current
\* document in either role.
CompareArchitectures ==
    \E baseline \in Range(documents), current \in Range(documents) :
        /\ changes' = ChangeLists(changes, baseline, current)
        /\ drift_score' = WeightedScore(changes')
        /\ severity' = SeverityOf(drift_score')
        /\ compared' = [ made |-> TRUE, baseline |-> baseline, current |-> current,
                         found_before |-> compared.found_before
                                            \/ (compared.made /\ drift_score > 0) ]
        /\ UNCHANGED <<tracerVars, architecture, fed, mainVars, documents, cli, trackerVars,
                       orchestrator>>

NoTracer ==
    /\ NewTracer
    /\ architecture = NoArchitecture
    /\ fed = NoFed
    /\ splunk = <<>>
    /\ run = NoRun

NotCompared ==
    [ made |-> FALSE, baseline |-> <<>>, current |-> <<>>, found_before |-> FALSE ]

\* ArchitectureDriftDetector.__init__, with two documents at hand.
InitDetector ==
    /\ NoTracer
    /\ documents \in Documents \X Documents
    /\ changes = NoChanges
    /\ drift_score = 0
    /\ severity = "NO_CHANGE"
    /\ compared = NotCompared
    /\ cli = [phase |-> "off"]
    /\ NoTracker
    /\ NoOrchestrator

NextDetector == CompareArchitectures

SpecDetector == InitDetector /\ [][NextDetector]_vars

-----------------------------------------------------------------------------
(* main() of drift_detector.py *)

\* What the two paths of the command line name: no file, a file that is not
\* JSON, a file holding the empty JSON object, or an architecture document.
NoContent == [services |-> <<>>, service_dependencies |-> <<>>, service_endpoints |-> <<>>]

Files ==
    { [kind |-> k, content |-> NoContent] : k \in {"missing", "invalid", "empty"} }
        \cup { [kind |-> "document", content |-> d] : d \in Documents }

\* load_architecture(filepath): None for a missing file and for invalid JSON,
\* else what json.load returns.
LoadArchitecture(file) ==
    [ none  |-> file.kind \in {"missing", "invalid"},
      empty |-> file.kind = "empty",
      value |-> file.content ]

\* Variant of Falsy: only the empty dict is falsy.
FalsyOnlyEmpty(x) == x.empty

\* `not x` of what load_architecture returns: None and the empty dict are falsy.
Falsy(x) == x.none \/ x.empty

\* Variant of ExitStatus: only CRITICAL exits with 1.
ExitStatusCriticalOnly(s) == IF s = "CRITICAL" THEN 1 ELSE 0

\* main(): "Exit with appropriate code"
ExitStatus(s) == IF s \in {"HIGH", "CRITICAL"} THEN 1 ELSE 0

NoReport == [written |-> FALSE, drift_score |-> 0, severity |-> "NO_CHANGE"]

\* The process of command line c ended, with or without a report written.
Exited(c, report, exit_status) ==
    [ phase |-> "exited", paths_given |-> c.paths_given,
      baseline_path |-> c.baseline_path, current_path |-> c.current_path,
      report |-> report, exit_status |-> exit_status ]

\* main() up to the loading: the usage text and return without two paths; the
\* detector made; the two documents loaded, or "Failed to load" and return.  A
\* return from main() ends the process with exit status 0.
MainLoad ==
    /\ cli.phase = "started"
    /\ IF ~cli.paths_given
       THEN /\ cli' = Exited(cli, NoReport, 0)
            /\ UNCHANGED <<documents, changes, drift_score, severity, compared>>
       ELSE LET baseline == LoadArchitecture(cli.baseline_path)
                current == LoadArchitecture(cli.current_path)
            IN  /\ changes' = NoChanges
                /\ drift_score' = 0
                /\ severity' = "NO_CHANGE"
                /\ compared' = NotCompared
                /\ IF Falsy(baseline) \/ Falsy(current)
                   THEN /\ cli' = Exited(cli, NoReport, 0)
                        /\ UNCHANGED documents
                   ELSE /\ cli' = [cli EXCEPT !.phase = "loaded"]
                        /\ documents' = <<baseline.value, current.value>>
    /\ UNCHANGED <<tracerVars, architecture, fed, mainVars, trackerVars, orchestrator>>

\* main() from the comparison on: compare_architectures, the report, sys.exit.
MainCompare ==
    /\ cli.phase = "loaded"
    /\ changes' = ChangeLists(changes, documents[1], documents[2])
    /\ drift_score' = WeightedScore(changes')
    /\ severity' = SeverityOf(drift_score')
    /\ compared' = [ made |-> TRUE, baseline |-> documents[1], current |-> documents[2],
                     found_before |-> FALSE ]
    /\ cli' = Exited(cli, [written |-> TRUE, drift_score |-> drift_score',
                           severity |-> severity'],
                     ExitStatus(severity'))
    /\ UNCHANGED <<tracerVars, architecture, fed, mainVars, documents, trackerVars, orchestrator>>

\* The process is started with two paths, or with fewer.
InitCli ==
    /\ NoTracer
    /\ documents = <<>>
    /\ changes = <<>>
    /\ drift_score = 0
    /\ severity = "NO_CHANGE"
    /\ compared = <<>>
    /\ \/ \E b \in Files, c \in Files :
             cli = [ phase |-> "started", paths_given |-> TRUE, baseline_path |-> b,
                     current_path |-> c, report |-> NoReport ]
       \/ \E f \in {x \in Files : x.kind = "missing"} :
             cli = [ phase |-> "started", paths_given |-> FALSE, baseline_path |-> f,
                     current_path |-> f, report |-> NoReport ]
    /\ NoTracker
    /\ NoOrchestrator

NextCli == MainLoad \/ MainCompare

SpecCli == InitCli /\ [][NextCli]_vars

-----------------------------------------------------------------------------
(* AdvancedDriftTracker: comparison and score *)

\* a_dict.get(key, [])
GetList(d, key) == IF key \in DOMAIN d THEN d[key] ELSE <<>>

\* Variant of DetectChanges: previous and current taken for each other.
DetectChangesSwapped(previous, current) ==
    [ services_added       |-> List(Set(previous.services) \ Set(current.services)),
      services_removed     |-> List(Set(current.services) \ Set(previous.services)),
      dependencies_added   |-> List(FlattenDependencies(previous.service_dependencies)
                                      \ FlattenDependencies(current.service_dependencies)),
      dependencies_removed |-> List(FlattenDependencies(current.service_dependencies)
                                      \ FlattenDependencies(previous.service_dependencies)),
      endpoints_added      |-> List(FlattenEndpoints(previous.service_endpoints)
                                      \ FlattenEndpoints(current.service_endpoints)),
      endpoints_removed    |-> List(FlattenEndpoints(current.service_endpoints)
                                      \ FlattenEndpoints(previous.service_endpoints)) ]

\* _detect_changes(previous, current)
DetectChanges(previous, current) ==
    [ services_added       |-> List(Set(current.services) \ Set(previous.services)),
      services_removed     |-> List(Set(previous.services) \ Set(current.services)),
      dependencies_added   |-> List(FlattenDependencies(current.service_dependencies)
                                      \ FlattenDependencies(previous.service_dependencies)),
      dependencies_removed |-> List(FlattenDependencies(previous.service_dependencies)
                                      \ FlattenDependencies(current.service_dependencies)),
      endpoints_added      |-> List(FlattenEndpoints(current.service_endpoints)
                                      \ FlattenEndpoints(previous.service_endpoints)),
      endpoints_removed    |-> List(FlattenEndpoints(previous.service_endpoints)
                                      \ FlattenEndpoints(current.service_endpoints)) ]

\* Variant of CalculateDriftScore: return score, without min(score, 100).
CalculateDriftScoreUncapped(c) ==
    Len(GetList(c, "services_added")) * 15
        + Len(GetList(c, "services_removed")) * 20
        + Len(GetList(c, "dependencies_added")) * 7
        + Len(GetList(c, "dependencies_removed")) * 10
        + Len(GetList(c, "endpoints_added")) * 3
        + Len(GetList(c, "endpoints_removed")) * 5

\* _calculate_drift_score(changes)
CalculateDriftScore(c) ==
    LET score == Len(GetList(c, "services_added")) * 15
                   + Len(GetList(c, "services_removed")) * 20
                   + Len(GetList(c, "dependencies_added")) * 7
                   + Len(GetList(c, "dependencies_removed")) * 10
                   + Len(GetList(c, "endpoints_added")) * 3
                   + Len(GetList(c, "endpoints_removed")) * 5
    IN  IF score < 100 THEN score ELSE 100

-----------------------------------------------------------------------------
(* Properties of the detector, checked under SpecDetector *)

\* The number of different items of a list.
Count(l) == Cardinality(Range(l))

WeightedSum(c) ==
    15 * Count(c.services_added) + 20 * Count(c.services_removed)
        + 7 * Count(c.dependencies_added) + 10 * Count(c.dependencies_removed)
        + 3 * Count(c.endpoints_added) + 5 * Count(c.endpoints_removed)

\* C5: the drift score of the change set is the weighted sum of the sizes of its
\* six lists (15, 20, 7, 10, 3, 5), or 100 when the sum is above 100; the
\* detector's score and the tracker's score of the change set are both that.
C5_DriftScore ==
    compared.made =>
        LET expected == IF WeightedSum(changes) > 100 THEN 100 ELSE WeightedSum(changes)
        IN  /\ drift_score = expected
            /\ CalculateDriftScore(changes) = expected

\* C5's case: one service and one dependency added score 22.
C5_Witness ==
    /\ compared.made
    /\ changes = [NoChanges EXCEPT !.services_added = <<"payment">>,
                                   !.dependencies_added = <<"product -> payment">>]
    /\ drift_score = 22

\* C5's other cases, each reachable: a service and two dependencies removed score
\* 40, three services removed score 60, and a sum above 100 scores 100.
C5_Scores40 ==
    /\ Len(changes.services_removed) = 1 /\ Len(changes.dependencies_removed) = 2
    /\ WeightedSum(changes) = 40 /\ drift_score = 40

C5_Scores60 ==
    /\ Len(changes.services_removed) = 3
    /\ WeightedSum(changes) = 60 /\ drift_score = 60

C5_ScoresCapped == WeightedSum(changes) > 100 /\ drift_score = 100

\* The severity tiers of spec section 4.4 and their order.
Tier(score) ==
    CASE score = 0 -> "NO_CHANGE"
      [] score \in 1..19 -> "LOW"
      [] score \in 20..49 -> "MEDIUM"
      [] score \in 50..79 -> "HIGH"
      [] score \in 80..100 -> "CRITICAL"

TierRank(t) ==
    CASE t = "NO_CHANGE" -> 0 [] t = "LOW" -> 1 [] t = "MEDIUM" -> 2
      [] t = "HIGH" -> 3 [] t = "CRITICAL" -> 4

\* C7: the detector's severity is the tier of its score; over all of 0..100 the
\* severity the detector computes is the tier, and it never falls as the score
\* rises.
C7_SeverityTiers ==
    /\ severity = Tier(drift_score)
    /\ \A score \in 0..100 : SeverityOf(score) = Tier(score)
    /\ \A score \in 0..99 : TierRank(SeverityOf(score)) <= TierRank(SeverityOf(score + 1))

\* C7's case: a comparison that scored exactly 20, the lowest MEDIUM score.
C7_Witness ==
    /\ compared.made
    /\ drift_score = 20
    /\ severity = "MEDIUM"

\* The <<owner, item>> pairs of a mapping of a document, and their identity keys.
Pairs(d) == UNION { {<<d[i][1], x>> : x \in Range(d[i][2])} : i \in DOMAIN d }

DependencyKeysOf(doc) == {p[1] \o " -> " \o p[2] : p \in Pairs(doc.service_dependencies)}

EndpointKeysOf(doc) == {p[1] \o ":" \o p[2] : p \in Pairs(doc.service_endpoints)}

\* C8: after compare(baseline, current) each added list holds exactly the items
\* (services, "source -> target" keys, "service:endpoint" keys) of current that
\* baseline lacks, and each removed list those of baseline that current lacks,
\* each item once; the tracker's comparison of the two documents gives the same
\* six sets.
C8_SetDifference ==
    compared.made =>
        LET b == compared.baseline
            c == compared.current
        IN  /\ Range(changes.services_added) = Range(c.services) \ Range(b.services)
            /\ Range(changes.services_removed) = Range(b.services) \ Range(c.services)
            /\ Range(changes.dependencies_added) = DependencyKeysOf(c) \ DependencyKeysOf(b)
            /\ Range(changes.dependencies_removed) = DependencyKeysOf(b) \ DependencyKeysOf(c)
            /\ Range(changes.endpoints_added) = EndpointKeysOf(c) \ EndpointKeysOf(b)
            /\ Range(changes.endpoints_removed) = EndpointKeysOf(b) \ EndpointKeysOf(c)
            /\ \A k \in DOMAIN changes : Len(changes[k]) = Count(changes[k])
            /\ \A k \in DOMAIN changes :
                   /\ Range(DetectChanges(b, c)[k]) = Range(changes[k])
                   /\ Len(DetectChanges(b, c)[k]) = Count(changes[k])

\* C8's case: a comparison with something added and something removed in each of
\* the three facets.
C8_Witness ==
    /\ compared.made
    /\ \A k \in DOMAIN changes : changes[k] # <<>>
    /\ "auth -> product" \in Range(changes.dependencies_added)
    /\ "product:/search" \in Range(changes.endpoints_removed)

\* C9: a document compared with itself gives the six lists empty and nothing but
\* the six lists, score 0 and NO_CHANGE.
C9_RoundTrip ==
    (compared.made /\ compared.baseline = compared.current) =>
        /\ changes = NoChanges
        /\ drift_score = 0
        /\ severity = "NO_CHANGE"

\* C9's case: the detector compared a document with itself after a comparison
\* that had found changes.
C9_Witness ==
    /\ compared.made
    /\ compared.baseline = compared.current
    /\ compared.found_before
    /\ compared.baseline.services # <<>>

\* C29: for the two documents the detector compared, in the roles it compared
\* them in and in the other roles, _detect_changes returns the six keys of the
\* detector's changes, each with the items of the detector's list, and
\* _calculate_drift_score of what it returns is the detector's drift_score.
C29_SameComparator ==
    compared.made =>
        LET b == compared.baseline
            c == compared.current
            tracked == DetectChanges(b, c)
            back == DetectChanges(c, b)
            detected_back == ChangeLists(changes, c, b)
        IN  /\ DOMAIN tracked = DOMAIN changes
            /\ \A k \in DOMAIN changes : Range(tracked[k]) = Range(changes[k])
            /\ CalculateDriftScore(tracked) = drift_score
            /\ \A k \in DOMAIN changes : Range(back[k]) = Range(detected_back[k])
            /\ CalculateDriftScore(back) = WeightedScore(detected_back)

\* C29's case: a comparison that found two services removed and none added,
\* scored below the cap by both.
C29_Witness ==
    /\ compared.made
    /\ Len(changes.services_removed) = 2
    /\ changes.services_added = <<>>
    /\ changes.dependencies_removed # <<>>
    /\ drift_score < 100
    /\ drift_score = CalculateDriftScore(DetectChanges(compared.baseline, compared.current))
    /\ DetectChanges(compared.baseline, compared.current).services_added = <<>>

-----------------------------------------------------------------------------
(* Properties of the detector's command line, checked under SpecCli *)

\* C19: when main() has made its comparison and ended, the exit status is 0 for
\* the severities NO_CHANGE, LOW and MEDIUM and not 0 for HIGH and CRITICAL.
C19_ExitStatus ==
    (cli.phase = "exited" /\ cli.paths_given /\ cli.report.written) =>
        /\ compared.made
        /\ cli.report = [written |-> TRUE, drift_score |-> drift_score, severity |-> severity]
        /\ severity \in {"NO_CHANGE", "LOW", "MEDIUM"} => cli.exit_status = 0
        /\ severity \in {"HIGH", "CRITICAL"} => cli.exit_status # 0

\* C19's case: a comparison that ended HIGH, with exit status 1.
C19_Witness ==
    /\ cli.phase = "exited"
    /\ cli.report.written
    /\ severity = "HIGH"
    /\ drift_score \in 50..79
    /\ cli.exit_status = 1

\* C19's other cases: MEDIUM ends with 0, CRITICAL with 1.
C19_Medium ==
    cli.phase = "exited" /\ cli.report.written /\ severity = "MEDIUM" /\ cli.exit_status = 0

C19_Critical ==
    cli.phase = "exited" /\ cli.report.written /\ severity = "CRITICAL" /\ cli.exit_status = 1

\* C20: when the baseline or the current document is missing or is not JSON,
\* main() does not end with exit status 0.
C20_LoadFailureSurfaced ==
    ( /\ cli.phase = "exited"
      /\ cli.paths_given
      /\ \/ cli.baseline_path.kind \in {"missing", "invalid"}
         \/ cli.current_path.kind \in {"missing", "invalid"} )
    => cli.exit_status # 0

\* What main() does instead: the baseline is missing, nothing was compared, and
\* the exit status is 0, as it is for NO_CHANGE.
C20_ExitsZero ==
    /\ cli.phase = "exited"
    /\ cli.paths_given
    /\ cli.baseline_path.kind = "missing"
    /\ cli.current_path.kind = "document"
    /\ compared = NotCompared
    /\ cli.report = NoReport
    /\ cli.exit_status = 0

-----------------------------------------------------------------------------
(* AdvancedDriftTracker: the snapshot history *)

\* The most history entries the model lets a tracker hold, and the last second of
\* the clock.
MaxHistory == 3

MaxClock == 1

\* The documents the tracer leaves in discovered_architecture.json.
Metrics(services, dependencies, endpoints, journeys) ==
    [ total_services     |-> Len(services),
      total_dependencies |-> Cardinality(Pairs(dependencies)),
      total_endpoints    |-> Cardinality(Pairs(endpoints)),
      total_journeys     |-> Len(journeys) ]

ArchitectureDocument(timestamp, services, dependencies, endpoints, journeys) ==
    [ timestamp            |-> timestamp,
      services             |-> services,
      service_dependencies |-> dependencies,
      service_endpoints    |-> endpoints,
      user_journeys        |-> journeys,
      metrics              |-> Metrics(services, dependencies, endpoints, journeys) ]

EmptyDocument == ArchitectureDocument("2025-01-01T09:00:00", <<>>, <<>>, <<>>, <<>>)

SmallDocument ==
    ArchitectureDocument("2025-01-02T09:00:00", <<"auth", "product">>,
        << <<"auth", <<"product">>>> >>,
        << <<"auth", <<"/login">>>> >>,
        << "login" >>)

FullDocument ==
    ArchitectureDocument("2025-01-03T09:00:00", <<"auth", "payment", "product">>,
        << <<"auth", <<"product", "payment">>>>, <<"product", <<"payment">>>> >>,
        << <<"auth", <<"/login">>>>, <<"product", <<"/search">>>>, <<"payment", <<"/pay">>>> >>,
        << "login", "checkout" >>)

\* The architecture of FullDocument found again by a later run: another
\* timestamp, other journeys, the dicts and lists in another order.
FullDocumentAgain ==
    ArchitectureDocument("2025-01-04T09:00:00", <<"auth", "payment", "product">>,
        << <<"product", <<"payment">>>>, <<"auth", <<"payment", "product">>>> >>,
        << <<"payment", <<"/pay">>>>, <<"product", <<"/search">>>>, <<"auth", <<"/login">>>> >>,
        << "checkout" >>)

\* The architecture of SmallDocument found again by a later run, lists and dicts
\* in the same order: another timestamp, other journeys, other metrics.
SmallDocumentLater ==
    [ ArchitectureDocument("2025-01-06T09:00:00", <<"auth", "product">>,
          << <<"auth", <<"product">>>> >>,
          << <<"auth", <<"/login">>>> >>,
          << "login", "login", "search" >>)
      EXCEPT !.metrics = [total_journeys |-> 3] ]

\* What a run that met an event without a service leaves: a dependency list
\* that holds None (null in the file).
NullTargetDocument ==
    ArchitectureDocument("2025-01-05T09:00:00", <<"auth", "product">>,
        << <<"auth", <<"product", None>>>> >>,
        << <<"auth", <<"/login">>>> >>,
        << "login" >>)

DiscoveredDocuments ==
    {EmptyDocument, SmallDocument, SmallDocumentLater, FullDocument, FullDocumentAgain,
     NullTargetDocument}

\* drift_history.json holding something json.load cannot parse.
CorruptFile == [exists |-> TRUE, corrupt |-> TRUE]

\* _load_history: the history the tracker starts from; the bare except turns
\* the error of json.load into the empty history.
LoadHistory(file) ==
    IF file.exists
    THEN IF file = CorruptFile THEN <<>> ELSE file.content
    ELSE <<>>

\* Variant of IsDuplicate: the hash compared with the first entry's, not the last's.
IsDuplicateOfFirst(h, arch_hash) == h # <<>> /\ h[1].hash = arch_hash

\* capture_snapshot: "Check if this is a duplicate"
IsDuplicate(h, arch_hash) == h # <<>> /\ h[Len(h)].hash = arch_hash

\* Variant of Snapshot: the changes and the score taken against the first entry.
SnapshotAgainstFirst(h, current_arch, arch_hash, now) ==
    [ timestamp    |-> now,
      hash         |-> arch_hash,
      architecture |-> current_arch,
      metrics      |-> current_arch.metrics,
      changes      |-> IF h # <<>>
                       THEN DetectChanges(h[1].architecture, current_arch)
                       ELSE [initial_snapshot |-> TRUE],
      drift_score  |-> IF h # <<>>
                       THEN CalculateDriftScore(DetectChanges(h[1].architecture, current_arch))
                       ELSE 0 ]

\* capture_snapshot: the snapshot made of current_arch at time now.
Snapshot(h, current_arch, arch_hash, now) ==
    [ timestamp    |-> now,
      hash         |-> arch_hash,
      architecture |-> current_arch,
      metrics      |-> current_arch.metrics,
      changes      |-> IF h # <<>>
                       THEN DetectChanges(h[Len(h)].architecture, current_arch)
                       ELSE [initial_snapshot |-> TRUE],
      drift_score  |-> IF h # <<>>
                       THEN CalculateDriftScore(DetectChanges(h[Len(h)].architecture, current_arch))
                       ELSE 0 ]

\* open(snapshot_filename, 'w'): the file named after the second `now`, made or
\* overwritten.
WriteSnapshotFile(files, now, snapshot) ==
    {f \in files : f.name # now} \cup {[name |-> now, snapshot |-> snapshot]}

ReturnedNone == [called |-> TRUE, none |-> TRUE]

\* Variant of AppendSnapshot: the snapshot put in front of the history.
PrependSnapshot(h, snapshot) == <<snapshot>> \o h

\* capture_snapshot: self.history.append(snapshot)
AppendSnapshot(h, snapshot) == Append(h, snapshot)

\* capture_snapshot(): None when discovered_architecture.json is missing or has
\* the hash of the last entry; the TypeError of calculate_architecture_hash is
\* not caught; otherwise the snapshot is appended, written to its own file, and
\* the history saved.
CaptureSnapshot ==
    IF ~discovered.exists
    THEN /\ returned' = ReturnedNone
         /\ UNCHANGED <<history, history_file, snapshot_files>>
    ELSE LET current_arch == discovered.content
             arch_hash == CalculateArchitectureHash(current_arch)
             snapshot == Snapshot(history, current_arch, arch_hash, clock)
         IN  IF arch_hash = TypeError
             THEN /\ returned' = [called |-> TRUE, none |-> FALSE, raised |-> TypeError]
                  /\ UNCHANGED <<history, history_file, snapshot_files>>
             ELSE IF IsDuplicate(history, arch_hash)
             THEN /\ returned' = ReturnedNone
                  /\ UNCHANGED <<history, history_file, snapshot_files>>
             ELSE /\ Len(history) < MaxHistory
                  /\ history' = AppendSnapshot(history, snapshot)
                  /\ snapshot_files' = WriteSnapshotFile(snapshot_files, clock, snapshot)
                  /\ history_file' = [exists |-> TRUE, content |-> history']
                  /\ returned' = [called |-> TRUE, none |-> FALSE, snapshot |-> snapshot]

\* capture_snapshot(), called on the tracker.
TrackerCaptureSnapshot ==
    /\ CaptureSnapshot
    /\ UNCHANGED <<tracerVars, architecture, fed, mainVars, detectorVars, trend, orchestrator,
                   discovered, clock,
                   second_history>>

\* A discovery run leaves its document in discovered_architecture.json.
SaveOutputs ==
    /\ \E doc \in DiscoveredDocuments : discovered' = [exists |-> TRUE, content |-> doc]
    /\ UNCHANGED <<tracerVars, architecture, fed, mainVars, detectorVars, trend, orchestrator,
                   history, second_history, history_file, snapshot_files, clock, returned>>

\* AdvancedDriftTracker.__init__: a new run of the tracker loads the history.
NewTracker ==
    /\ history' = LoadHistory(history_file)
    /\ returned' = [called |-> FALSE]
    /\ UNCHANGED <<tracerVars, architecture, fed, mainVars, detectorVars, trend, orchestrator,
                   discovered, second_history, history_file, snapshot_files, clock>>

\* A second passes.
Tick ==
    /\ clock < MaxClock
    /\ clock' = clock + 1
    /\ UNCHANGED <<tracerVars, architecture, fed, mainVars, detectorVars, trend, orchestrator,
                   discovered, history, second_history, history_file, snapshot_files,
                   returned>>

\* AdvancedDriftTracker.__init__ in a directory without history.
InitTracker ==
    /\ NoTracer
    /\ NoDetector
    /\ discovered = [exists |-> FALSE]
    /\ history_file = [exists |-> FALSE]
    /\ history = LoadHistory(history_file)
    /\ second_history = <<>>
    /\ snapshot_files = {}
    /\ clock = 0
    /\ returned = [called |-> FALSE]
    /\ trend = NoTrend
    /\ NoOrchestrator

NextTracker == TrackerCaptureSnapshot \/ SaveOutputs \/ NewTracker \/ Tick

SpecTracker == InitTracker /\ [][NextTracker]_vars

\* The tracker run on one discovered document after another, all within one
\* second of the clock: what its fingerprints tell apart and what they do not.
NextFingerprint == TrackerCaptureSnapshot \/ SaveOutputs \/ NewTracker

SpecFingerprint == InitTracker /\ [][NextFingerprint]_vars

\* A tracker made in a history directory whose drift_history.json is corrupt.
InitCorrupt ==
    /\ NoTracer
    /\ NoDetector
    /\ discovered = [exists |-> FALSE]
    /\ history_file = CorruptFile
    /\ history = LoadHistory(history_file)
    /\ second_history = <<>>
    /\ snapshot_files = {}
    /\ clock = 0
    /\ returned = [called |-> FALSE]
    /\ trend = NoTrend
    /\ NoOrchestrator

SpecCorrupt == InitCorrupt /\ [][NextTracker]_vars

-----------------------------------------------------------------------------
(* Two trackers on one history directory *)

\* AdvancedDriftTracker.__init__ of the second tracker: it loads the history.
SecondNewTracker ==
    /\ second_history' = LoadHistory(history_file)
    /\ UNCHANGED <<tracerVars, architecture, fed, mainVars, detectorVars, trend, orchestrator,
                   discovered, history, history_file, snapshot_files, clock, returned>>

\* capture_snapshot() called on the second tracker; what it returns goes to its
\* caller.
SecondCaptureSnapshot ==
    /\ IF ~discovered.exists
       THEN UNCHANGED <<second_history, history_file, snapshot_files>>
       ELSE LET current_arch == discovered.content
                arch_hash == CalculateArchitectureHash(current_arch)
                snapshot == Snapshot(second_history, current_arch, arch_hash, clock)
            IN  IF arch_hash = TypeError \/ IsDuplicate(second_history, arch_hash)
                THEN UNCHANGED <<second_history, history_file, snapshot_files>>
                ELSE /\ Len(second_history) < MaxHistory
                     /\ second_history' = AppendSnapshot(second_history, snapshot)
                     /\ snapshot_files' = WriteSnapshotFile(snapshot_files, clock, snapshot)
                     /\ history_file' = [exists |-> TRUE, content |-> second_history']
    /\ UNCHANGED <<tracerVars, architecture, fed, mainVars, detectorVars, trend, orchestrator,
                   discovered, history, clock, returned>>

\* Runs of main() of advanced_drift_tracker.py by two processes in one
\* directory, their steps in any order, all within one second of the clock; each
\* tracker was first made in the directory without history.
InitTwoTrackers == InitTracker

NextTwoTrackers ==
    \/ TrackerCaptureSnapshot
    \/ SecondCaptureSnapshot
    \/ NewTracker
    \/ SecondNewTracker
    \/ SaveOutputs

SpecTwoTrackers == InitTwoTrackers /\ [][NextTwoTrackers]_vars

-----------------------------------------------------------------------------
(* Properties of the tracker, checked under SpecTracker *)

\* C6: every drift_score stored in the history is an integer from 0 to 100, and
\* so are the tracker's and the detector's scores of the change between any
\* entry's architecture and the next one's.
C6_ScoreBounded ==
    \A i \in DOMAIN history :
        /\ history[i].drift_score \in 0..100
        /\ i > 1 =>
              LET previous == history[i - 1].architecture
                  current == history[i].architecture
              IN  /\ CalculateDriftScore(DetectChanges(previous, current)) \in 0..100
                  /\ WeightedScore(ChangeLists(NoChanges, previous, current)) \in 0..100

\* C6's case: an entry whose changes weigh more than 100 and whose score is 100.
C6_Witness ==
    \E i \in DOMAIN history :
        /\ i > 1
        /\ CalculateDriftScoreUncapped(history[i].changes) > 100
        /\ history[i].drift_score = 100

\* C10: a capture_snapshot call that finds the hash of the current architecture
\* equal to the hash of the last history entry returns None and leaves the
\* history, drift_history.json and the snapshot files as they are.
C10_NoOpAppend ==
    [][ ( /\ TrackerCaptureSnapshot
          /\ discovered.exists
          /\ history # <<>>
          /\ CalculateArchitectureHash(discovered.content) = history[Len(history)].hash )
        => ( /\ history' = history
             /\ history_file' = history_file
             /\ snapshot_files' = snapshot_files
             /\ returned' = ReturnedNone ) ]_vars

\* C10's case: capture_snapshot returned None for a document that is not the
\* last entry's document but has its hash, with at least two entries stored.
C10_Witness ==
    /\ returned = ReturnedNone
    /\ discovered.exists
    /\ Len(history) >= 2
    /\ CalculateArchitectureHash(discovered.content) = history[Len(history)].hash
    /\ discovered.content # history[Len(history)].architecture
    /\ history_file = [exists |-> TRUE, content |-> history]

IsPrefix(s, t) == Len(s) <= Len(t) /\ \A i \in DOMAIN s : s[i] = t[i]

\* C11: every capture_snapshot call of a tracker leaves the history it found as a
\* prefix of the history it leaves, longer by one entry at most, in memory and
\* in drift_history.json.
C11_AppendOnly ==
    [][ TrackerCaptureSnapshot =>
          /\ IsPrefix(history, history')
          /\ Len(history') <= Len(history) + 1
          /\ history_file.exists =>
                /\ history_file'.exists
                /\ IsPrefix(history_file.content, history_file'.content)
                /\ Len(history_file'.content) <= Len(history_file.content) + 1 ]_vars

\* C11's case: capture_snapshot has just appended the snapshot it returned to a
\* history of two entries, and saved the three.
C11_Witness ==
    /\ returned.called
    /\ "snapshot" \in DOMAIN returned
    /\ Len(history) = 3
    /\ history[3] = returned.snapshot
    /\ history[1].architecture # history[2].architecture
    /\ history_file = [exists |-> TRUE, content |-> history]

C12_InitialMarked ==
    history # <<>> =>
        LET first == history[1]
        IN  /\ DOMAIN first.changes = {"initial_snapshot"}
            /\ first.changes.initial_snapshot
            /\ first.drift_score = 0
            /\ SeverityOf(first.drift_score) = "NO_CHANGE"
            /\ DOMAIN first =
                 {"timestamp", "hash", "architecture", "metrics", "changes", "drift_score"}

C12_FirstOfFull ==
    /\ Len(history) = 1
    /\ history[1].architecture = FullDocument
    /\ "snapshot" \in DOMAIN returned

\* C24: every entry of the tracker's history but the first holds the changes
\* _detect_changes finds from the architecture of the entry before it to its
\* own, and the score _calculate_drift_score gives those changes; so does every
\* entry of drift_history.json.
C24_DiffAgainstPredecessor ==
    /\ \A i \in 2..Len(history) :
          /\ history[i].changes =
               DetectChanges(history[i - 1].architecture, history[i].architecture)
          /\ history[i].drift_score = CalculateDriftScore(history[i].changes)
    /\ history_file.exists =>
          \A i \in 2..Len(history_file.content) :
              /\ history_file.content[i].changes =
                   DetectChanges(history_file.content[i - 1].architecture,
                                 history_file.content[i].architecture)
              /\ history_file.content[i].drift_score =
                   CalculateDriftScore(history_file.content[i].changes)

\* C24's case: the third entry holds the changes from the second entry's
\* architecture, which are not the changes from the first entry's.
C24_Witness ==
    /\ Len(history) = 3
    /\ history[3].changes =
         DetectChanges(history[2].architecture, history[3].architecture)
    /\ history[3].changes #
         DetectChanges(history[1].architecture, history[3].architecture)
    /\ history[3].drift_score > 0
    /\ history_file = [exists |-> TRUE, content |-> history]

\* C27: every entry of the history has its own snapshot file, holding it; there
\* are as many snapshot files as entries; and no capture changes or removes a
\* snapshot file that is there.
C27_OneFilePerSnapshot ==
    /\ [](/\ Cardinality(snapshot_files) = Len(history)
          /\ \A i \in DOMAIN history :
                \E f \in snapshot_files : f.snapshot = history[i])
    /\ [][TrackerCaptureSnapshot => snapshot_files \subseteq snapshot_files']_vars

\* The history the claim rules out: two entries captured within one second, and
\* the one snapshot file of that second, which holds the second entry.
C27_Overwritten ==
    /\ Len(history) = 2
    /\ history[1].timestamp = history[2].timestamp
    /\ snapshot_files = {[name |-> history[2].timestamp, snapshot |-> history[2]]}
    /\ history_file = [exists |-> TRUE, content |-> history]

-----------------------------------------------------------------------------
(* Properties of the fingerprint, checked under SpecFingerprint *)

\* The documents that have the three facets of document d, value for value, and
\* the timestamp, journeys and metrics of any of the discovered documents.
SameFacets(d) ==
    { [ timestamp            |-> o.timestamp,
        services             |-> d.services,
        service_dependencies |-> d.service_dependencies,
        service_endpoints    |-> d.service_endpoints,
        user_journeys        |-> o.user_journeys,
        metrics              |-> o.metrics ] : o \in DiscoveredDocuments }

\* C14: a document has the fingerprint of every document with the same services,
\* service_dependencies and service_endpoints, whatever their timestamp,
\* user_journeys and metrics, and the hash of every history entry whose
\* architecture has those three.
C14_IdentityFacetsOnly ==
    discovered.exists =>
        LET d == discovered.content
            h == CalculateArchitectureHash(d)
        IN  /\ \A o \in SameFacets(d) : CalculateArchitectureHash(o) = h
            /\ \A i \in DOMAIN history :
                   history[i].architecture \in SameFacets(d) => history[i].hash = h

\* C14's case: capture_snapshot found the document of a later run, with another
\* timestamp, other journeys and other metrics, to be the last entry's
\* architecture, and returned None.
C14_Witness ==
    /\ returned = ReturnedNone
    /\ history # <<>>
    /\ history[Len(history)].architecture = SmallDocument
    /\ discovered = [exists |-> TRUE, content |-> SmallDocumentLater]
    /\ SmallDocumentLater.timestamp # SmallDocument.timestamp
    /\ SmallDocumentLater.user_journeys # SmallDocument.user_journeys
    /\ SmallDocumentLater.metrics # SmallDocument.metrics

\* The orders a list can be put in.
Reorderings(l) == { [i \in DOMAIN l |-> l[p[i]]] : p \in Listings(DOMAIN l) }

\* The dicts that have the keys of dict d in any order, each with its list in
\* any order.
ReorderedDicts(d) ==
    { [j \in DOMAIN d |-> <<d[p[j]][1], g[p[j]]>>] :
        p \in Listings(DOMAIN d),
        g \in { h \in [DOMAIN d -> UNION {Reorderings(d[i][2]) : i \in DOMAIN d}] :
                  \A i \in DOMAIN d : h[i] \in Reorderings(d[i][2]) } }

\* C15: a document has the fingerprint of every document made of it by putting
\* its services in another order, or the keys of its dependency mapping and the
\* list of any key, or the keys of its endpoint mapping and the list of any key;
\* and it has the hash of every history entry whose architecture is the
\* document with all three in another order.
C15_Canonical ==
    discovered.exists =>
        LET d == discovered.content
            h == CalculateArchitectureHash(d)
        IN  /\ \A s \in Reorderings(d.services) :
                  CalculateArchitectureHash([d EXCEPT !.services = s]) = h
            /\ \A dependencies \in ReorderedDicts(d.service_dependencies) :
                  CalculateArchitectureHash(
                      [d EXCEPT !.service_dependencies = dependencies]) = h
            /\ \A endpoints \in ReorderedDicts(d.service_endpoints) :
                  CalculateArchitectureHash(
                      [d EXCEPT !.service_endpoints = endpoints]) = h
            /\ \A i \in DOMAIN history :
                  LET a == history[i].architecture
                  IN  ( /\ a.services \in Reorderings(d.services)
                        /\ a.service_dependencies \in ReorderedDicts(d.service_dependencies)
                        /\ a.service_endpoints \in ReorderedDicts(d.service_endpoints) )
                      => history[i].hash = h

\* C15's case: the tracker holds the snapshot of FullDocument, and
\* capture_snapshot returned None for FullDocumentAgain, whose dicts have their
\* keys and a list in another order.
C15_Witness ==
    /\ returned = ReturnedNone
    /\ history # <<>>
    /\ history[Len(history)].architecture = FullDocument
    /\ discovered = [exists |-> TRUE, content |-> FullDocumentAgain]
    /\ FullDocumentAgain.service_dependencies[1][1] # FullDocument.service_dependencies[1][1]
    /\ FullDocumentAgain.service_dependencies \in ReorderedDicts(FullDocument.service_dependencies)
    /\ CalculateArchitectureHash(FullDocument) # TypeError

-----------------------------------------------------------------------------
(* Properties of a tracker on a corrupt history, checked under SpecCorrupt *)

\* C18: while drift_history.json is corrupt the tracker holds no history to go
\* on from, no step appends a snapshot, writes a snapshot file or writes
\* drift_history.json, and no capture_snapshot call returns a snapshot.
C18_CorruptHistoryFatal ==
    [][ history_file = CorruptFile =>
          /\ history' = history
          /\ snapshot_files' = snapshot_files
          /\ history_file' = history_file
          /\ "snapshot" \notin DOMAIN returned' ]_vars

\* What the tracker does instead: it has appended an initial snapshot to the
\* empty history it started from and written it over the corrupt file.
C18_Overwritten ==
    /\ Len(history) = 1
    /\ history[1].changes = [initial_snapshot |-> TRUE]
    /\ history_file = [exists |-> TRUE, content |-> history]
    /\ returned = [called |-> TRUE, none |-> FALSE, snapshot |-> history[1]]

-----------------------------------------------------------------------------
(* Properties of two trackers, checked under SpecTwoTrackers *)

\* C13: every entry either tracker has appended is in drift_history.json, and
\* every entry of drift_history.json but the first has the change set and the
\* score of the comparison with the entry before it, as after the two runs in
\* one order or the other.
C13_SingleWriter ==
    history_file.exists =>
        LET stored == history_file.content
        IN  /\ Range(history) \cup Range(second_history) \subseteq Range(stored)
            /\ \A i \in DOMAIN stored :
                   IF i = 1 THEN stored[i].changes = [initial_snapshot |-> TRUE]
                   ELSE LET c == DetectChanges(stored[i - 1].architecture,
                                               stored[i].architecture)
                        IN  /\ stored[i].changes = c
                            /\ stored[i].drift_score = CalculateDriftScore(c)

\* The two trackers loaded the empty history, each appended its snapshot, and
\* the file holds the second tracker's entry only.
C13_LostEntry ==
    /\ Len(history) = 1
    /\ Len(second_history) = 1
    /\ history # second_history
    /\ history_file = [exists |-> TRUE, content |-> second_history]

-----------------------------------------------------------------------------
(* The three programs on inputs that may be missing *)

\* correlation_ids.json: no file, a file json.load or the comprehension over its
\* journeys cannot read, or the (journey name, correlation id) pairs it holds.
IdsFiles ==
    { [kind |-> k, journeys |-> <<>>] : k \in {"missing", "invalid"} }
        \cup { [kind |-> "list", journeys |-> ids] : ids \in Batches }

\* generate_report(architecture) raises TypeError: ', '.join(deps) meets None, or
\* sorted() of the items of service_endpoints compares the key None with a str.
GenerateReportRaises(a) ==
    \/ \E i \in DOMAIN a.service_dependencies : None \in Range(a.service_dependencies[i][2])
    \/ /\ Len(a.service_endpoints) >= 2
       /\ \E i \in DOMAIN a.service_endpoints : a.service_endpoints[i][1] = None

\* The files save_outputs writes besides discovered_architecture.json.
OutputFiles == {"journey_details.json", "architecture_report.md"}

\* main() of architecture_tracer.py up to the loading of correlation_ids.json:
\* the tracer made; FileNotFoundError and every other exception end main().
TracerMainLoad ==
    /\ run.phase = "started"
    /\ run' = IF run.ids_file.kind = "list"
              THEN [run EXCEPT !.phase = "new", !.correlation_ids = run.ids_file.journeys]
              ELSE [run EXCEPT !.phase = "exited"]
    /\ UNCHANGED <<tracerVars, architecture, fed, splunk, detectorVars, trackerVars,
                   orchestrator>>

\* main() of architecture_tracer.py from use_claude_for_analysis on: the report
\* generated, or its TypeError ending main(); save_outputs writes the three files.
TracerMainSave ==
    /\ run.phase = "built"
    /\ IF GenerateReportRaises(architecture)
       THEN /\ run' = [run EXCEPT !.phase = "raised"]
            /\ UNCHANGED discovered
       ELSE /\ run' = [run EXCEPT !.phase = "saved", !.outputs = OutputFiles]
            /\ discovered' = [exists |-> TRUE, content |-> SavedArchitecture(architecture)]
    /\ UNCHANGED <<tracerVars, architecture, fed, splunk, detectorVars, history,
                   second_history, history_file, snapshot_files, clock, returned, trend,
                   orchestrator>>

\* discovered_architecture.json is removed from the working directory.
RemoveDiscovered ==
    /\ discovered.exists
    /\ discovered' = [exists |-> FALSE]
    /\ UNCHANGED <<tracerVars, architecture, fed, mainVars, detectorVars, history,
                   second_history, history_file, snapshot_files, clock, returned, trend,
                   orchestrator>>

\* One of the three programs is started in a directory: the tracer, with or
\* without correlation_ids.json; the drift detector, on two paths; the tracker,
\* with or without discovered_architecture.json.
InitTracerMain ==
    /\ NewTracer
    /\ architecture = NoArchitecture
    /\ fed = NoFed
    /\ splunk \in [{c[2] : c \in CorrelationIds} -> Responses]
    /\ \E f \in IdsFiles :
           run = [ phase |-> "started", round |-> 1, ids_file |-> f,
                   correlation_ids |-> <<>>, outputs |-> {} ]
    /\ NoDetector
    /\ NoTracker
    /\ NoOrchestrator

InitInputs == InitTracerMain \/ InitCli \/ InitTracker

\* The tracker is the program that was started.
TrackerStarted == run.phase = "off" /\ cli.phase = "off"

NextInputs ==
    \/ TracerMainLoad
    \/ ProcessAllCorrelationIds
    \/ MainBuildArchitectureMap
    \/ TracerMainSave
    \/ MainLoad
    \/ MainCompare
    \/ (TrackerStarted /\ TrackerCaptureSnapshot)
    \/ (TrackerStarted /\ SaveOutputs)
    \/ (TrackerStarted /\ NewTracker)
    \/ (TrackerStarted /\ Tick)
    \/ (TrackerStarted /\ RemoveDiscovered)

SpecInputs == InitInputs /\ [][NextInputs]_vars

-----------------------------------------------------------------------------
(* Properties of the programs on missing inputs, checked under SpecInputs *)

\* A path of the drift detector's command line names no file.
DocumentMissing ==
    /\ cli.paths_given
    /\ cli.baseline_path.kind = "missing" \/ cli.current_path.kind = "missing"

\* C21: no partial run on a missing input.  capture_snapshot without
\* discovered_architecture.json returns None and leaves the history,
\* drift_history.json and the snapshot files as they were; the drift detector
\* given a path that names no file ends without a comparison made and without a
\* report file; the tracer without correlation_ids.json ends with its tracer empty
\* and none of its three output files written.
C21_NoPartialRun ==
    /\ [][ /\ (TrackerCaptureSnapshot /\ ~discovered.exists) =>
                 /\ UNCHANGED <<history, history_file, snapshot_files>>
                 /\ returned' = ReturnedNone
           /\ (MainLoad /\ DocumentMissing) =>
                 /\ cli'.phase = "exited"
                 /\ ~cli'.report.written
                 /\ compared' = NotCompared
           /\ (TracerMainLoad /\ run.ids_file.kind = "missing") =>
                 /\ run'.phase = "exited"
                 /\ run'.outputs = {}
                 /\ UNCHANGED <<tracerVars, architecture, discovered>> ]_vars
    /\ [](cli.phase = "exited" /\ DocumentMissing =>
              ~cli.report.written /\ compared = NotCompared)
    /\ [](run.phase = "exited" =>
              /\ run.outputs = {}
              /\ ~discovered.exists
              /\ Tracer = FreshTracer
              /\ architecture = NoArchitecture)

\* C21's case: the tracker holds two entries, discovered_architecture.json was
\* removed, and capture_snapshot returned None; drift_history.json holds the two
\* entries and the snapshot files are there.
C21_Witness ==
    /\ TrackerStarted
    /\ ~discovered.exists
    /\ returned = ReturnedNone
    /\ Len(history) = 2
    /\ history_file = [exists |-> TRUE, content |-> history]
    /\ snapshot_files # {}

\* C21's second case: the baseline path names no file, the current path a
\* document; the process ended with nothing compared and no report.
C21_DetectorCase ==
    /\ cli.phase = "exited"
    /\ cli.paths_given
    /\ cli.baseline_path.kind = "missing"
    /\ cli.current_path.kind = "document"
    /\ ~cli.report.written
    /\ compared = NotCompared

\* C21's third case: main() of the tracer ended on the missing
\* correlation_ids.json, though the trace store holds traces.
C21_TracerCase ==
    /\ run.phase = "exited"
    /\ run.ids_file.kind = "missing"
    /\ \A c \in DOMAIN splunk : Succeeded(c) /\ splunk[c].trace # <<>>
    /\ run.outputs = {}
    /\ ~discovered.exists

-----------------------------------------------------------------------------
(* AdvancedDriftTracker: the trend report *)

\* a_dict.get(key, 0)
Get(d, key) == IF key \in DOMAIN d THEN d[key] ELSE 0

\* Variant of EnoughHistory: one entry is enough.
EnoughHistoryOne(h) == Len(h) >= 1

\* generate_trend_report: `len(self.history) < 2` is false.
EnoughHistory(h) == Len(h) >= 2

\* Variant of ChangesCount: every entry counted.
ChangesCountAll(h) == Len(h)

\* generate_trend_report: "Calculate change frequency"
RECURSIVE ChangesCount(_)
ChangesCount(h) ==
    IF h = <<>> THEN 0
    ELSE (IF Get(Head(h), "drift_score") > 0 THEN 1 ELSE 0) + ChangesCount(Tail(h))

\* f"{((len(self.history) - changes_count) / len(self.history) * 100):.1f}", in
\* tenths of a percent, rounded to the nearest (no history of the model has a
\* rate halfway between two tenths).
StabilityRate(n, changes_count) == (2000 * (n - changes_count) + n) \div (2 * n)

\* The keys of metrics_comparison, in its order.
MetricKeys == <<"total_services", "total_dependencies", "total_endpoints", "total_journeys">>

\* generate_trend_report: one line of "Metric Growth Analysis"
MetricGrowth(first_metrics, last_metrics, key) ==
    LET first_val == Get(first_metrics, key)
        last_val == Get(last_metrics, key)
        change == last_val - first_val
    IN  [ first_val |-> first_val,
          last_val  |-> last_val,
          change    |-> change,
          sign      |-> IF change > 0 THEN "+" ELSE IF change < 0 THEN "-" ELSE "no change" ]

\* generate_trend_report: "Recent changes", the four lists it prints when they
\* are not empty; nothing for an entry marked initial_snapshot.
RecentChanges(recent) ==
    IF "initial_snapshot" \in DOMAIN recent.changes
    THEN [ services_added |-> <<>>, services_removed |-> <<>>,
           dependencies_added |-> <<>>, dependencies_removed |-> <<>> ]
    ELSE [ services_added       |-> GetList(recent.changes, "services_added"),
           services_removed     |-> GetList(recent.changes, "services_removed"),
           dependencies_added   |-> GetList(recent.changes, "dependencies_added"),
           dependencies_removed |-> GetList(recent.changes, "dependencies_removed") ]

\* The report generate_trend_report makes of history h.
TrendReport(h) ==
    [ first           |-> h[1].timestamp,
      last            |-> h[Len(h)].timestamp,
      total_snapshots |-> Len(h),
      changes_count   |-> ChangesCount(h),
      stability_rate  |-> StabilityRate(Len(h), ChangesCount(h)),
      growth          |-> [i \in DOMAIN MetricKeys |->
                              MetricGrowth(h[1].metrics, h[Len(h)].metrics, MetricKeys[i])],
      recent          |-> RecentChanges(h[Len(h)]) ]

\* generate_trend_report(): "Not enough historical data" and return, or the
\* report, printed and written to drift_trend_report.txt.
GenerateTrendReport ==
    /\ trend' = IF EnoughHistory(history)
                THEN [ called |-> TRUE, insufficient |-> FALSE,
                       file |-> [exists |-> TRUE, report |-> TrendReport(history)] ]
                ELSE [ called |-> TRUE, insufficient |-> TRUE, file |-> trend.file ]
    /\ UNCHANGED <<tracerVars, architecture, fed, mainVars, detectorVars, orchestrator,
                   discovered, history, second_history, history_file, snapshot_files,
                   clock, returned>>

\* capture_snapshot raised, which ends main().
Raised == returned.called /\ "raised" \in DOMAIN returned

\* main() of advanced_drift_tracker.py is run again: a new tracker, which loads
\* the history.
MainNewTracker ==
    /\ trend.called \/ Raised
    /\ history' = LoadHistory(history_file)
    /\ returned' = [called |-> FALSE]
    /\ trend' = [trend EXCEPT !.called = FALSE, !.insufficient = FALSE]
    /\ UNCHANGED <<tracerVars, architecture, fed, mainVars, detectorVars, orchestrator,
                   discovered, second_history, history_file, snapshot_files, clock>>

\* Runs of main() of advanced_drift_tracker.py, one after another: the tracker
\* made, capture_snapshot, generate_trend_report.  Between two runs a discovery
\* run may leave a document and time may pass.
NextTrend ==
    \/ (~returned.called /\ SaveOutputs)
    \/ (~returned.called /\ Tick)
    \/ (~returned.called /\ TrackerCaptureSnapshot)
    \/ (returned.called /\ ~Raised /\ ~trend.called /\ GenerateTrendReport)
    \/ MainNewTracker

SpecTrend == InitTracker /\ [][NextTrend]_vars

-----------------------------------------------------------------------------
(* Properties of the trend report, checked under SpecTrend *)

\* C22: generate_trend_report on a history of fewer than two entries reports
\* insufficient data and leaves drift_trend_report.txt as it was, which is
\* absent; on two or more entries it writes the report of that history.
C22_TrendNeedsTwo ==
    /\ [][GenerateTrendReport =>
            /\ trend'.called
            /\ IF Len(history) < 2
               THEN /\ trend'.insufficient
                    /\ trend'.file = trend.file
                    /\ ~trend'.file.exists
               ELSE /\ ~trend'.insufficient
                    /\ trend'.file.exists
                    /\ trend'.file.report.total_snapshots = Len(history)]_vars
    /\ [](trend.file.exists => Len(history) >= 2)

\* C22's case: the tracker holds one entry, generate_trend_report was called and
\* reported insufficient data; no report file exists.
C22_Witness ==
    /\ Len(history) = 1
    /\ trend.called
    /\ trend.insufficient
    /\ ~trend.file.exists

\* C22's other case: the report of a two-entry history was written.
C22_Produced ==
    /\ Len(history) = 2
    /\ trend.called
    /\ ~trend.insufficient
    /\ trend.file.exists
    /\ trend.file.report.total_snapshots = 2

\* The count an entry's metrics hold under a key, 0 without the key.
CountOf(entry, key) == IF key \in DOMAIN entry.metrics THEN entry.metrics[key] ELSE 0

\* C23: the report of a history of n >= 2 entries holds the number of entries
\* with drift_score > 0, the stability rate (n - changed) / n as a percentage
\* rounded to one decimal, the first and the last entry's timestamp, and for
\* services, dependencies, endpoints and journeys the last entry's count minus
\* the first entry's, with "+" when positive, "-" when negative and "no change"
\* when zero.
C23_TrendValues ==
    [][(GenerateTrendReport /\ Len(history) >= 2) =>
         LET r == trend'.file.report
             n == Len(history)
             changed == Cardinality({i \in 1..n : history[i].drift_score > 0})
             off == r.stability_rate * n - 1000 * (n - changed)
         IN  /\ r.total_snapshots = n
             /\ r.changes_count = changed
             /\ 2 * off <= n /\ 2 * (0 - off) <= n
             /\ r.first = history[1].timestamp
             /\ r.last = history[n].timestamp
             /\ Len(r.growth) = 4
             /\ \A i \in 1..4 :
                   LET key == <<"total_services", "total_dependencies",
                                "total_endpoints", "total_journeys">>[i]
                       delta == CountOf(history[n], key) - CountOf(history[1], key)
                   IN  /\ r.growth[i].change = delta
                       /\ r.growth[i].first_val = CountOf(history[1], key)
                       /\ r.growth[i].last_val = CountOf(history[n], key)
                       /\ r.growth[i].sign = "+" <=> delta > 0
                       /\ r.growth[i].sign = "-" <=> delta < 0
                       /\ r.growth[i].sign = "no change" <=> delta = 0]_vars

\* C23's case: the report of a three-entry history captured over two seconds:
\* two changes, a stability rate of 33.3%, a metric that grew and one that shrank.
C23_Witness ==
    /\ Len(history) = 3
    /\ trend.file.exists
    /\ trend.file.report.total_snapshots = 3
    /\ trend.file.report.changes_count = 2
    /\ trend.file.report.stability_rate = 333
    /\ trend.file.report.first = 0
    /\ trend.file.report.last = 1
    /\ \E i \in 1..4 : trend.file.report.growth[i].sign = "+"
    /\ \E i \in 1..4 : trend.file.report.growth[i].sign = "-"

-----------------------------------------------------------------------------
(* The tracker on documents of any origin *)

\* Documents discovered_architecture.json can hold though no run of the tracer
\* writes them: the architecture of SmallDocument with a service that maps to
\* the empty dependency list, and with a service listed twice.
EmptyListDocument ==
    ArchitectureDocument("2025-01-07T09:00:00", <<"auth", "product">>,
        << <<"auth", <<"product">>>>, <<"product", <<>>>> >>,
        << <<"auth", <<"/login">>>> >>,
        << "login" >>)

RepeatedServiceDocument ==
    ArchitectureDocument("2025-01-08T09:00:00", <<"auth", "auth", "product">>,
        << <<"auth", <<"product">>>> >>,
        << <<"auth", <<"/login">>>> >>,
        << "login" >>)

AnyDocuments ==
    {EmptyDocument, SmallDocument, EmptyListDocument, RepeatedServiceDocument, FullDocument}

\* discovered_architecture.json is written, by a discovery run or otherwise.
SaveAnyDocument ==
    /\ \E doc \in AnyDocuments : discovered' = [exists |-> TRUE, content |-> doc]
    /\ UNCHANGED <<tracerVars, architecture, fed, mainVars, detectorVars, trend, orchestrator,
                   history, second_history, history_file, snapshot_files, clock, returned>>

NextAnyDocument == TrackerCaptureSnapshot \/ SaveAnyDocument \/ NewTracker

SpecAnyDocument == InitTracker /\ [][NextAnyDocument]_vars

-----------------------------------------------------------------------------
(* Properties of the tracker on any document, checked under SpecAnyDocument *)

\* The comparison found something added or removed.
SomeChange(c) ==
    \E key \in {"services_added", "services_removed", "dependencies_added",
                "dependencies_removed", "endpoints_added", "endpoints_removed"} :
        GetList(c, key) # <<>>

C25_SilentEntry ==
    /\ Len(history) = 2
    /\ history[1].architecture = SmallDocument
    /\ history[2].architecture = EmptyListDocument
    /\ history[2].hash # history[1].hash
    /\ ~SomeChange(history[2].changes)
    /\ history[2].drift_score = 0
    /\ returned = [called |-> TRUE, none |-> FALSE, snapshot |-> history[2]]

-----------------------------------------------------------------------------
(* A map held by its caller while the tracer goes on *)

\* The most journeys the model lets a tracer hold.
MaxJourneys == 2

\* The map the caller holds after the tracer's user_journeys became journeys:
\* its 'user_journeys' is the tracer's list itself, not a copy; its other lists
\* and its metrics were made by build_architecture_map.
Held(a, journeys) == IF a.built THEN [a EXCEPT !.user_journeys = journeys] ELSE a

\* process_all_correlation_ids(correlation_ids), called on the tracer at any time.
HeldProcessAll ==
    \E ids \in Batches :
        LET tr == ProcessAll(Tracer, splunk, ids)
        IN  /\ Len(tr.user_journeys) <= MaxJourneys
            /\ all_services' = tr.all_services
            /\ service_dependencies' = tr.service_dependencies
            /\ service_endpoints' = tr.service_endpoints
            /\ user_journeys' = tr.user_journeys
            /\ architecture' = Held(architecture, tr.user_journeys)
            /\ UNCHANGED <<fed, mainVars, detectorVars, trackerVars, orchestrator>>

\* analyze_trace(correlation_id, trace), called on the tracer at any time with a
\* trace fetched from the store; the journey_data it returns goes to its caller.
HeldAnalyzeTrace ==
    \E trace \in {FetchTraceFromSplunk(splunk, c) : c \in DOMAIN splunk} :
        LET st == IF trace = <<>> THEN LoopStart(Tracer) ELSE Loop(LoopStart(Tracer), trace)
        IN  /\ all_services' = st.all_services
            /\ service_dependencies' = st.service_dependencies
            /\ service_endpoints' = st.service_endpoints
            /\ UNCHANGED <<user_journeys, architecture, fed, mainVars, detectorVars,
                           trackerVars, orchestrator>>

\* The responses of the trace store of this specification: the trace of a login
\* followed by a search, the trace of a search, and no trace.
HeldResponses ==
    { [status |-> 200, raises |-> FALSE,
       trace |-> << [service |-> "auth", endpoint |-> "/login"],
                    [service |-> "product", endpoint |-> "/search"] >>],
      [status |-> 200, raises |-> FALSE,
       trace |-> << [service |-> "product", endpoint |-> "/search"] >>],
      [status |-> 500, raises |-> FALSE, trace |-> <<>>] }

InitHeld ==
    /\ NewTracer
    /\ architecture = NoArchitecture
    /\ fed = NoFed
    /\ splunk \in [{c[2] : c \in CorrelationIds} -> HeldResponses]
    /\ run = NoRun
    /\ NoDetector
    /\ NoTracker
    /\ NoOrchestrator

NextHeld == HeldProcessAll \/ HeldAnalyzeTrace \/ BuildArchitectureMap

SpecHeld == InitHeld /\ [][NextHeld]_vars

-----------------------------------------------------------------------------
(* Properties of a held map, checked under SpecHeld *)

\* The number of items of the lists of a dict.
RECURSIVE SumListLen(_)
SumListLen(d) == IF d = <<>> THEN 0 ELSE Len(Head(d)[2]) + SumListLen(Tail(d))

\* C26: a map build_architecture_map returned is left as it is by every later
\* analyze_trace and process_all_correlation_ids, and its metrics are the sizes
\* of its own services, dependencies, endpoints and user_journeys.
C26_MapIsFresh ==
    /\ [][(architecture.built /\ (HeldProcessAll \/ HeldAnalyzeTrace)) =>
              architecture' = architecture]_vars
    /\ [](architecture.built =>
              /\ architecture.metrics.total_services = Len(architecture.services)
              /\ architecture.metrics.total_dependencies =
                   SumListLen(architecture.service_dependencies)
              /\ architecture.metrics.total_endpoints =
                   SumListLen(architecture.service_endpoints)
              /\ architecture.metrics.total_journeys = Len(architecture.user_journeys))

\* The map the claim rules out: built with one journey and total_journeys 1, it
\* holds two journeys after a later process_all_correlation_ids.
C26_StaleJourneys ==
    /\ architecture.built
    /\ architecture.metrics.total_journeys = 1
    /\ Len(architecture.user_journeys) = 2
    /\ architecture.user_journeys = user_journeys

-----------------------------------------------------------------------------
(* MasterOrchestrator *)

\* The steps of run(), in its order, by their keys in self.results.
Steps == <<"health_check", "journeys", "discovery", "diagrams", "drift">>

\* What a step meets: the services' health; the return code of the step's
\* subprocess, the files it was to leave, its timeout, another exception.
Outcomes(step) ==
    CASE step = "health_check" -> {"ok", "unhealthy", "no_requests"}
      [] step = "journeys"     -> {"ok", "no_file", "failed", "timeout", "error"}
      [] step = "discovery"    -> {"ok", "incomplete", "failed", "timeout", "error"}
      [] step = "diagrams"     -> {"ok", "incomplete", "failed", "timeout", "error"}
      [] step = "drift"        -> {"ok", "failed", "timeout", "error"}

\* The message a failed step appends to self.errors; the two "Drift tracking
\* error" messages end with the subprocess's stderr and with the exception.
ErrorOf(step, outcome) ==
    CASE step = "health_check" /\ outcome = "unhealthy"   -> "Health check failed"
      [] step = "health_check" /\ outcome = "no_requests" -> "Missing requests library"
      [] step = "journeys" /\ outcome = "no_file"     -> "Correlation IDs file not created"
      [] step = "journeys" /\ outcome = "failed"      -> "Journey simulator error"
      [] step = "journeys" /\ outcome = "timeout"     -> "Journey simulator timeout"
      [] step = "journeys" /\ outcome = "error"       -> "Journey execution error"
      [] step = "discovery" /\ outcome = "incomplete" -> "Architecture discovery incomplete"
      [] step = "discovery" /\ outcome = "failed"     -> "Discovery error"
      [] step = "discovery" /\ outcome = "timeout"    -> "Discovery timeout"
      [] step = "discovery" /\ outcome = "error"      -> "Discovery execution error"
      [] step = "diagrams" /\ outcome = "incomplete"  -> "Diagram generation incomplete"
      [] step = "diagrams" /\ outcome = "failed"      -> "Diagram error"
      [] step = "diagrams" /\ outcome = "timeout"     -> "Diagram timeout"
      [] step = "diagrams" /\ outcome = "error"       -> "Diagram generation error"
      [] step = "drift" /\ outcome = "failed"         -> "Drift tracking error: stderr"
      [] step = "drift" /\ outcome = "timeout"        -> "Drift tracking timeout"
      [] step = "drift" /\ outcome = "error"          -> "Drift tracking error: exception"

\* Variant of Aborts: only a failed health check ends the pipeline.
AbortsOnHealthOnly(step) == step = "health_check"

\* run(): the steps whose failure is followed by "Aborting pipeline."
Aborts(step) == step \in {"health_check", "journeys", "discovery"}

\* Variant of AllPassed: the three aborting steps passed.
CorePassed(results) == results.health_check /\ results.journeys /\ results.discovery

\* generate_final_report: all(self.results.values())
AllPassed(results) == \A step \in DOMAIN results : results[step]

\* The step after step i of run(), or the final report.
After(i) == IF i < Len(Steps) THEN Steps[i + 1] ELSE "final_report"

\* Step i of run(): the step's method sets its result to True and returns True,
\* or appends its error and returns False; run() goes on to the next step, or
\* to generate_final_report and `return False` where the step aborts.
RunStep(i) ==
    /\ \E outcome \in Outcomes(Steps[i]) :
          orchestrator' =
            IF outcome = "ok"
            THEN [orchestrator EXCEPT !.phase = After(i),
                                      !.started = Append(@, Steps[i]),
                                      !.results[Steps[i]] = TRUE]
            ELSE [orchestrator EXCEPT !.phase = IF Aborts(Steps[i]) THEN "final_report"
                                                ELSE After(i),
                                      !.aborted = Aborts(Steps[i]),
                                      !.started = Append(@, Steps[i]),
                                      !.errors = Append(@, ErrorOf(Steps[i], outcome))]
    /\ UNCHANGED <<tracerVars, architecture, fed, mainVars, detectorVars, trackerVars>>

CheckHealth == orchestrator.phase = Steps[1] /\ RunStep(1)

RunUserJourneys == orchestrator.phase = Steps[2] /\ RunStep(2)

RunArchitectureDiscovery == orchestrator.phase = Steps[3] /\ RunStep(3)

GenerateDiagrams == orchestrator.phase = Steps[4] /\ RunStep(4)

TrackDrift == orchestrator.phase = Steps[5] /\ RunStep(5)

\* generate_final_report(), what run() returns, and sys.exit of main().
GenerateFinalReport ==
    /\ orchestrator.phase = "final_report"
    /\ LET success == IF orchestrator.aborted THEN FALSE ELSE AllPassed(orchestrator.results)
       IN  orchestrator' = [orchestrator EXCEPT !.phase = "exited",
                                                !.report = TRUE,
                                                !.all_passed = AllPassed(orchestrator.results),
                                                !.success = success,
                                                !.exit_status = IF success THEN 0 ELSE 1]
    /\ UNCHANGED <<tracerVars, architecture, fed, mainVars, detectorVars, trackerVars>>

\* main(): except KeyboardInterrupt, at any point of the run.
KeyboardInterrupt ==
    /\ orchestrator.phase \notin {"off", "exited"}
    /\ orchestrator' = [orchestrator EXCEPT !.phase = "exited",
                                            !.interrupted = TRUE,
                                            !.exit_status = 130]
    /\ UNCHANGED <<tracerVars, architecture, fed, mainVars, detectorVars, trackerVars>>

\* main(): the orchestrator made, run() about to begin.
InitOrchestrator ==
    /\ NoTracer
    /\ NoDetector
    /\ NoTracker
    /\ orchestrator =
         [ phase       |-> "health_check",
           results     |-> [step \in Range(Steps) |-> FALSE],
           errors      |-> <<>>,
           started     |-> <<>>,
           aborted     |-> FALSE,
           report      |-> FALSE,
           all_passed  |-> FALSE,
           success     |-> FALSE,
           interrupted |-> FALSE,
           exit_status |-> 0 ]

NextOrchestrator ==
    \/ CheckHealth
    \/ RunUserJourneys
    \/ RunArchitectureDiscovery
    \/ GenerateDiagrams
    \/ TrackDrift
    \/ GenerateFinalReport
    \/ KeyboardInterrupt

SpecOrchestrator == InitOrchestrator /\ [][NextOrchestrator]_vars

-----------------------------------------------------------------------------
(* Properties of the orchestrator, checked under SpecOrchestrator *)

\* The steps started so far are the first steps of the pipeline, in its order,
\* and no step was started after a failed health check, user journeys or
\* discovery.
OrderedAndAborting ==
    /\ IsPrefix(orchestrator.started, Steps)
    /\ \A i \in 1..3 :
          Len(orchestrator.started) > i => orchestrator.results[Steps[i]]

\* A step of the first three that fails is followed by the final report; the
\* diagrams are followed by the drift tracking, and the drift tracking by the
\* final report of a run that was not aborted, whether they failed or not.
AbortOrContinue ==
    /\ (CheckHealth /\ ~orchestrator'.results.health_check) =>
           (orchestrator'.phase = "final_report" /\ orchestrator'.aborted)
    /\ (RunUserJourneys /\ ~orchestrator'.results.journeys) =>
           (orchestrator'.phase = "final_report" /\ orchestrator'.aborted)
    /\ (RunArchitectureDiscovery /\ ~orchestrator'.results.discovery) =>
           (orchestrator'.phase = "final_report" /\ orchestrator'.aborted)
    /\ GenerateDiagrams => orchestrator'.phase = "drift"
    /\ TrackDrift => (orchestrator'.phase = "final_report" /\ ~orchestrator'.aborted)

\* The five results are true.
AllFive == \A i \in DOMAIN Steps : orchestrator.results[Steps[i]]

C30_Aborted ==
    /\ orchestrator.phase = "exited"
    /\ orchestrator.started = <<"health_check", "journeys", "discovery">>
    /\ orchestrator.aborted
    /\ orchestrator.report
    /\ orchestrator.exit_status = 1

C30_Success ==
    /\ orchestrator.phase = "exited"
    /\ AllFive
    /\ orchestrator.report
    /\ orchestrator.exit_status = 0

C30_Interrupted ==
    /\ orchestrator.phase = "exited"
    /\ orchestrator.interrupted
    /\ AllFive
    /\ ~orchestrator.report
    /\ orchestrator.exit_status = 130

====
